---------------------------- MODULE Spec2Model ----------------------------
(***************************************************************************)
(* Model of the bloom-detection and phenology services of bloomwatch       *)
(* (backend/services/bloom_detection_service.py, phenology_service.py).    *)
(*                                                                         *)
(* Numbers.  A vegetation index v is held as the integer 840 * v, so 1.0   *)
(* is 840, the NDVI threshold 0.4 is 336, the EVI threshold 0.3 is 252 and *)
(* the peak prominence 0.1 is 84.  Raw in-range samples are multiples of   *)
(* 420, which makes every linear interpolation over a gap of up to seven   *)
(* missing samples exact.  A missing value (NaN) is the number 99999.       *)
(* A confidence score c is held as 100 * c, and bloom_intensity, the mean  *)
(* of two indices, as their sum (1680 * intensity).                        *)
(*                                                                         *)
(* Dates.  A pandas Timestamp is the number of days since 2023-01-01.  A   *)
(* '%Y-%m-%d' string is the triple <<year, month, day>>: the fields are    *)
(* zero padded, so Python's string order is the lexicographic order of     *)
(* the triple.  strftime and strptime are computed from the calendar.      *)
(***************************************************************************)
EXTENDS Integers, Sequences, FiniteSets, TLC

VARIABLES
    pc,                  \* position of the call being modelled
    raw,                 \* vegetation_data['time_series'] as passed in
    df,                  \* the DataFrame of the call
    threshold_blooms,    \* result of _detect_threshold_blooms
    peak_blooms,         \* result of _detect_peak_blooms
    change_point_blooms, \* result of _detect_change_point_blooms
    bloom_events,        \* argument of _merge_bloom_events
    merged,              \* return value of _merge_bloom_events
    merged_from,         \* per returned event: the indices (into the sorted
                         \* candidate list) of the candidates folded into it
    result,              \* return value of the public method
    pheno,               \* locals and outputs of the phenology call
    now,                 \* datetime.now(), in days since 2023-01-01
    rng,                 \* state of the process-wide numpy generator
    calls                \* the forecast and detection calls in progress on
                         \* one shared BloomDetectionService instance

vars == <<pc, raw, df, threshold_blooms, peak_blooms, change_point_blooms,
          bloom_events, merged, merged_from, result, pheno,
          now, rng, calls>>

\* np.nan: a value no index takes
NaN == 99999

-----------------------------------------------------------------------------
(* Program constants                                                       *)

ndvi_bloom_threshold == 336
evi_bloom_threshold == 252
min_bloom_duration == 14
max_bloom_duration == 120
merge_gap_days == 7
interpolate_limit == 3
peak_prominence_min == 84
peak_distance == 3
peak_window == 5
min_threshold_span == 2

-----------------------------------------------------------------------------
(* Generic helpers                                                         *)

Min2(a, b) == IF a <= b THEN a ELSE b
Max2(a, b) == IF a >= b THEN a ELSE b

RECURSIVE SumSeq(_)
SumSeq(s) == IF s = <<>> THEN 0 ELSE Head(s) + SumSeq(Tail(s))

SeqOf(S, n) == UNION {[1..k -> S] : k \in 0..n}

MaxOf(S) == CHOOSE x \in S : \A y \in S : y <= x
MinOf(S) == CHOOSE x \in S : \A y \in S : x <= y

RECURSIVE Gcd(_, _)
Gcd(a, b) == IF b = 0 THEN a ELSE Gcd(b, a % b)

Abs(a) == IF a < 0 THEN -a ELSE a

\* the greatest common divisor of the entries of s, 0 when all are 0
RECURSIVE GcdOf(_)
GcdOf(s) == IF s = <<>> THEN 0 ELSE Gcd(Abs(Head(s)), GcdOf(Tail(s)))

\* the elements of a finite set of numbers in ascending order
RECURSIVE Ascending(_)
Ascending(S) == IF S = {} THEN <<>> ELSE <<MinOf(S)>> \o Ascending(S \ {MinOf(S)})

PermutationsOf(n) == {f \in [1..n -> 1..n] : \A i, j \in 1..n : i # j => f[i] # f[j]}

-----------------------------------------------------------------------------
(* Calendar: Timestamp.strftime('%Y-%m-%d') and datetime.strptime          *)

IsLeap(y) == (y % 4 = 0 /\ y % 100 # 0) \/ y % 400 = 0
DaysInYear(y) == IF IsLeap(y) THEN 366 ELSE 365
DaysInMonth(y, m) ==
    IF m = 2 THEN (IF IsLeap(y) THEN 29 ELSE 28)
    ELSE IF m \in {4, 6, 9, 11} THEN 30 ELSE 31

RECURSIVE YmdFrom(_, _, _)
YmdFrom(y, m, d) ==
    IF d >= DaysInMonth(y, m)
    THEN (IF m = 12 THEN YmdFrom(y + 1, 1, d - DaysInMonth(y, m))
                    ELSE YmdFrom(y, m + 1, d - DaysInMonth(y, m)))
    ELSE <<y, m, d + 1>>

\* date.strftime('%Y-%m-%d') of the Timestamp `day`
Strftime(day) == YmdFrom(2023, 1, day)

RECURSIVE DaysBeforeYear(_)
DaysBeforeYear(y) == IF y <= 2023 THEN 0 ELSE DaysInYear(y - 1) + DaysBeforeYear(y - 1)

RECURSIVE DaysBeforeMonth(_, _)
DaysBeforeMonth(y, m) ==
    IF m <= 1 THEN 0 ELSE DaysInMonth(y, m - 1) + DaysBeforeMonth(y, m - 1)

\* datetime.strptime(s, '%Y-%m-%d'), as days since 2023-01-01
Strptime(s) == DaysBeforeYear(s[1]) + DaysBeforeMonth(s[1], s[2]) + s[3] - 1

\* Python's order on two '%Y-%m-%d' strings
StrLess(a, b) ==
    \/ a[1] < b[1]
    \/ a[1] = b[1] /\ a[2] < b[2]
    \/ a[1] = b[1] /\ a[2] = b[2] /\ a[3] < b[3]

StrMax(a, b) == IF StrLess(a, b) THEN b ELSE a

-----------------------------------------------------------------------------
(* _merge_bloom_events (bloom_detection_service.py 343-387)                *)

\* one step of sorted(): insert x behind every element whose key is not
\* greater (Python's sort is stable)
RECURSIVE InsertByStart(_, _)
InsertByStart(sorted, x) ==
    IF sorted = <<>> THEN <<x>>
    ELSE IF StrLess(x.start_date, Head(sorted).start_date) THEN <<x>> \o sorted
    ELSE <<Head(sorted)>> \o InsertByStart(Tail(sorted), x)

\* the list as it was handed in
KeepInputOrder(events) == events

RECURSIVE SortByStart(_)
\* sorted(bloom_events, key=lambda x: x['start_date'])
SortByStart(events) ==
    IF events = <<>> THEN <<>>
    ELSE InsertByStart(SortByStart(SubSeq(events, 1, Len(events) - 1)),
                       events[Len(events)])

ShouldMergeNoTolerance(current_bloom, bloom) ==
    Strptime(bloom.start_date) - Strptime(current_bloom.end_date) <= 0

\* line 360: (bloom_start - current_end).days <= 7
ShouldMerge(current_bloom, bloom) ==
    Strptime(bloom.start_date) - Strptime(current_bloom.end_date) <= merge_gap_days

FoldKeepingFirstEvi(current_bloom, bloom) ==
    LET end == StrMax(current_bloom.end_date, bloom.end_date)
    IN [current_bloom EXCEPT
          !.end_date = end,
          !.peak_ndvi = Max2(current_bloom.peak_ndvi, bloom.peak_ndvi),
          !.bloom_intensity = Max2(current_bloom.bloom_intensity, bloom.bloom_intensity),
          !.confidence_score = Max2(current_bloom.confidence_score, bloom.confidence_score),
          !.duration_days = Strptime(end) - Strptime(current_bloom.start_date)]

\* a fold that keeps the accumulator's own end_date
FoldKeepingFirstEnd(current_bloom, bloom) ==
    [current_bloom EXCEPT
       !.peak_ndvi = Max2(current_bloom.peak_ndvi, bloom.peak_ndvi),
       !.peak_evi = Max2(current_bloom.peak_evi, bloom.peak_evi),
       !.bloom_intensity = Max2(current_bloom.bloom_intensity, bloom.bloom_intensity),
       !.confidence_score = Max2(current_bloom.confidence_score, bloom.confidence_score),
       !.duration_days = Strptime(current_bloom.end_date) - Strptime(current_bloom.start_date)]

\* lines 362-371: the accumulator after folding `bloom` into it
FoldBloom(current_bloom, bloom) ==
    LET end == StrMax(current_bloom.end_date, bloom.end_date)
    IN [current_bloom EXCEPT
          !.end_date = end,
          !.peak_ndvi = Max2(current_bloom.peak_ndvi, bloom.peak_ndvi),
          !.peak_evi = Max2(current_bloom.peak_evi, bloom.peak_evi),
          !.bloom_intensity = Max2(current_bloom.bloom_intensity, bloom.bloom_intensity),
          !.confidence_score = Max2(current_bloom.confidence_score, bloom.confidence_score),
          !.duration_days = Strptime(end) - Strptime(current_bloom.start_date)]

\* lines 355-378: the scan from position i of the sorted list.  Each finished
\* event is paired with the positions of the candidates folded into it.
RECURSIVE MergeScan(_, _, _, _, _)
MergeScan(sorted_blooms, i, current_bloom, members, done) ==
    IF i > Len(sorted_blooms)
    THEN Append(done, [event |-> current_bloom, members |-> members])
    ELSE IF ShouldMerge(current_bloom, sorted_blooms[i])
    THEN MergeScan(sorted_blooms, i + 1, FoldBloom(current_bloom, sorted_blooms[i]),
                   members \cup {i}, done)
    ELSE MergeScan(sorted_blooms, i + 1, sorted_blooms[i], {i},
                   Append(done, [event |-> current_bloom, members |-> members]))

\* line 381: the events kept by the minimum-duration filter
KeepLongEnough(pairs) ==
    SelectSeq(pairs, LAMBDA p : p.event.duration_days >= min_bloom_duration)

\* a merger that drops the short candidates before the scan
MergePairsFilterFirst(events) ==
    LET long == SelectSeq(events, LAMBDA e : e.duration_days >= min_bloom_duration)
    IN IF long = <<>> THEN <<>>
       ELSE LET sorted_blooms == SortByStart(long)
            IN MergeScan(sorted_blooms, 2, sorted_blooms[1], {1}, <<>>)

\* the whole of _merge_bloom_events, events paired with their members
MergePairs(events) ==
    IF events = <<>> THEN <<>>
    ELSE LET sorted_blooms == SortByStart(events)
         IN KeepLongEnough(MergeScan(sorted_blooms, 2, sorted_blooms[1], {1}, <<>>))

\* the list _merge_bloom_events returns
MergeBloomEvents(events) ==
    LET pairs == MergePairs(events) IN [k \in 1..Len(pairs) |-> pairs[k].event]

MergeMembers(events) ==
    LET pairs == MergePairs(events) IN [k \in 1..Len(pairs) |-> pairs[k].members]

\* the caller's list after a merger whose first accumulator is the
\* earliest record itself: that record carries what was folded into it
InputsSharedWithAccumulator(events) ==
    IF events = <<>> THEN events
    ELSE LET sorted_blooms == SortByStart(events)
             first == CHOOSE k \in 1..Len(events) :
                         /\ events[k].start_date = sorted_blooms[1].start_date
                         /\ \A j \in 1..(k - 1) :
                               events[j].start_date # sorted_blooms[1].start_date
         IN [events EXCEPT
               ![first] = MergeScan(sorted_blooms, 2, sorted_blooms[1], {1}, <<>>)[1].event]

\* the caller's list after the call: sorted() at line 350 builds a new list
\* and every accumulator is a copy (lines 353 and 375), so each assignment
\* of lines 362-371 goes to the copy and the records handed in stay as they
\* were
InputsAfterMerge(events) == events

-----------------------------------------------------------------------------
(* DataFrame helpers.  A frame is a sequence of rows; positions (iloc) are *)
(* counted from 0 as in pandas, and every row keeps its row label.         *)

Iloc(frame, p) == frame[p + 1]
InFrame(frame, p) == 0 <= p /\ p < Len(frame)

\* one insertion of sort_values('date'): behind every row whose date is not
\* later, so rows with equal dates keep their order
RECURSIVE InsertByDate(_, _)
InsertByDate(sorted, x) ==
    IF sorted = <<>> THEN <<x>>
    ELSE IF x.date < Head(sorted).date THEN <<x>> \o sorted
    ELSE <<Head(sorted)>> \o InsertByDate(Tail(sorted), x)

RECURSIVE SortByDate(_)
SortByDate(rows) ==
    IF rows = <<>> THEN <<>>
    ELSE InsertByDate(SortByDate(SubSeq(rows, 1, Len(rows) - 1)), rows[Len(rows)])

\* lines 51-53: DataFrame(time_series), to_datetime, sort_values('date'),
\* reset_index(drop=True)
LoadFrame(time_series) ==
    LET parsed == [k \in 1..Len(time_series) |->
                     [date |-> Strptime(time_series[k].date),
                      ndvi |-> time_series[k].ndvi, evi |-> time_series[k].evi]]
        sorted == SortByDate(parsed)
    IN [k \in 1..Len(sorted) |->
          [label |-> k - 1, date |-> sorted[k].date,
           ndvi |-> sorted[k].ndvi, evi |-> sorted[k].evi]]

-----------------------------------------------------------------------------
(* _clean_time_series (165-185)                                            *)

\* lines 169-172: a value below -1 or above 1 becomes NaN
MaskOutlier(v) == IF v = NaN THEN NaN ELSE IF v < -840 \/ v > 840 THEN NaN ELSE v

\* position (from 1) of the last valid value before k, 0 when there is none
RECURSIVE PrevValid(_, _)
PrevValid(col, k) ==
    IF k <= 1 THEN 0 ELSE IF col[k - 1] # NaN THEN k - 1 ELSE PrevValid(col, k - 1)

\* position of the first valid value after k, 0 when there is none
RECURSIVE NextValid(_, _)
NextValid(col, k) ==
    IF k >= Len(col) THEN 0 ELSE IF col[k + 1] # NaN THEN k + 1 ELSE NextValid(col, k + 1)

\* Series.interpolate(method='linear', limit=3): samples count as equally
\* spaced; a missing value is filled from the line through the valid values
\* around its gap, or with the last valid value when none follows; only the
\* first `limit` values of a gap are filled and a leading gap is left alone.
Interpolate(col) ==
    [k \in 1..Len(col) |->
       IF col[k] # NaN THEN col[k]
       ELSE LET a == PrevValid(col, k)
                b == NextValid(col, k)
            IN IF a = 0 \/ k - a > interpolate_limit THEN NaN
               ELSE IF b = 0 THEN col[a]
               ELSE col[a] + ((col[b] - col[a]) * (k - a)) \div (b - a)]

DropNothing(frame) == frame

\* line 179: dropna(subset=['ndvi', 'evi']); the rows kept keep their labels
DropNa(frame) == SelectSeq(frame, LAMBDA r : r.ndvi # NaN /\ r.evi # NaN)

CleanTimeSeries(frame) ==
    LET ndvi == Interpolate([k \in 1..Len(frame) |-> MaskOutlier(frame[k].ndvi)])
        evi == Interpolate([k \in 1..Len(frame) |-> MaskOutlier(frame[k].evi)])
    IN DropNa([k \in 1..Len(frame) |->
                 [frame[k] EXCEPT !.ndvi = ndvi[k], !.evi = evi[k]]])

-----------------------------------------------------------------------------
(* _smooth_time_series (187-208)                                           *)

\* lines 191-193
SmoothWindow(n) ==
    LET w == Min2(11, n \div 3) IN IF w % 2 = 0 THEN w + 1 ELSE w

\* Rows of the least-squares cubic fit over a window of w equally spaced
\* samples, times SavgolScale(w): row r gives the fitted value at the r-th
\* sample of the window.  The middle row is the Savitzky-Golay kernel.
SavgolRows(w) ==
    IF w = 5
    THEN << <<69, 4, -6, 4, -1>>, <<4, 54, 24, -16, 4>>, <<-6, 24, 34, 24, -6>>,
            <<4, -16, 24, 54, 4>>, <<-1, 4, -6, 4, 69>> >>
    ELSE IF w = 7
    THEN << <<39, 8, -4, -4, 1, 4, -2>>, <<8, 19, 16, 6, -4, -7, 4>>,
            <<-4, 16, 19, 12, 2, -4, 1>>, <<-4, 6, 12, 14, 12, 6, -4>>,
            <<1, -4, 2, 12, 19, 16, -4>>, <<4, -7, -4, 6, 16, 19, 8>>,
            <<-2, 4, 1, -4, -4, 8, 39>> >>
    ELSE IF w = 9
    THEN << <<1190, 392, -28, -168, -126, 0, 112, 112, -98>>,
            <<392, 455, 392, 252, 84, -63, -140, -98, 112>>,
            <<-28, 392, 515, 432, 234, 12, -143, -140, 112>>,
            <<-168, 252, 432, 435, 324, 162, 12, -63, 0>>,
            <<-126, 84, 234, 324, 354, 324, 234, 84, -126>>,
            <<0, -63, 12, 162, 324, 435, 432, 252, -168>>,
            <<112, -140, -143, 12, 234, 432, 515, 392, -28>>,
            <<112, -98, -140, -63, 84, 252, 392, 455, 392>>,
            <<-98, 112, 112, 0, -126, -168, -28, 392, 1190>> >>
    ELSE << <<678, 288, 48, -72, -102, -72, -12, 48, 78, 48, -72>>,
            <<288, 246, 192, 132, 72, 18, -24, -48, -48, -18, 48>>,
            <<48, 192, 246, 232, 172, 88, 2, -64, -88, -48, 78>>,
            <<-72, 132, 232, 251, 212, 138, 52, -23, -64, -48, 48>>,
            <<-102, 72, 172, 212, 206, 168, 112, 52, 2, -24, -12>>,
            <<-72, 18, 88, 138, 168, 178, 168, 138, 88, 18, -72>>,
            <<-12, -24, 2, 52, 112, 168, 206, 212, 172, 72, -102>>,
            <<48, -48, -64, -23, 52, 138, 212, 251, 232, 132, -72>>,
            <<78, -48, -88, -64, 2, 88, 172, 232, 246, 192, 48>>,
            <<48, -18, -48, -48, -24, 18, 72, 132, 192, 246, 288>>,
            <<-72, 48, 78, 48, -12, -72, -102, -72, 48, 288, 678>> >>

\* the factor by which SavgolFilter multiplies the values it returns
SavgolScale(w) ==
    IF w < 5 THEN 1 ELSE IF w = 5 THEN 70 ELSE IF w = 7 THEN 42
    ELSE IF w = 9 THEN 1386 ELSE 858

\* scipy.signal.savgol_filter(x, w, 3), mode='interp', for odd w in 5..11: the
\* kernel inside, the polynomial fitted to the first (last) w samples at the
\* first (last) w \div 2 positions.  Values are returned times SavgolScale(w).
SavgolFilter(x, w) ==
    LET n == Len(x)
        half == w \div 2
        rows == SavgolRows(w)
        Dot(row, first) == SumSeq([j \in 1..w |-> row[j] * x[first + j - 1]])
    IN [k \in 1..n |->
          IF k <= half THEN Dot(rows[k], 1)
          ELSE IF k > n - half THEN Dot(rows[w - (n - k)], n - w + 1)
          ELSE Dot(rows[half + 1], k - half)]

\* a smoother that filters the smoothed columns of a frame that has them
\* already, and the index columns otherwise
SmoothSmoothed(frame) ==
    LET w == SmoothWindow(Len(frame))
        again == frame # <<>> /\ "ndvi_smooth" \in DOMAIN frame[1]
        ndvi == [k \in 1..Len(frame) |-> IF again THEN frame[k].ndvi_smooth ELSE frame[k].ndvi]
        evi == [k \in 1..Len(frame) |-> IF again THEN frame[k].evi_smooth ELSE frame[k].evi]
    IN [k \in 1..Len(frame) |->
          [label |-> frame[k].label, date |-> frame[k].date,
           ndvi |-> frame[k].ndvi, evi |-> frame[k].evi,
           ndvi_smooth |-> IF w >= 5 THEN SavgolFilter(ndvi, w)[k] ELSE ndvi[k],
           evi_smooth |-> IF w >= 5 THEN SavgolFilter(evi, w)[k] ELSE evi[k]]]

\* lines 190-200: frames of fewer than 12 rows keep their values, longer
\* frames are filtered over SmoothWindow samples
SmoothTimeSeries(frame) ==
    LET w == SmoothWindow(Len(frame)) IN
    IF w >= 5
    THEN LET ns == SavgolFilter([k \in 1..Len(frame) |-> frame[k].ndvi], w)
             es == SavgolFilter([k \in 1..Len(frame) |-> frame[k].evi], w)
         IN [k \in 1..Len(frame) |->
               [label |-> frame[k].label, date |-> frame[k].date,
                ndvi |-> frame[k].ndvi, evi |-> frame[k].evi,
                ndvi_smooth |-> ns[k], evi_smooth |-> es[k]]]
    ELSE [k \in 1..Len(frame) |->
               [label |-> frame[k].label, date |-> frame[k].date,
                ndvi |-> frame[k].ndvi, evi |-> frame[k].evi,
                ndvi_smooth |-> frame[k].ndvi, evi_smooth |-> frame[k].evi]]

\* the unit of the smoothed columns of a frame the bloom service smoothed:
\* 1.0 is 840 * BloomScale(frame)
BloomScale(frame) == SavgolScale(SmoothWindow(Len(frame)))

-----------------------------------------------------------------------------
(* Candidate records and the helpers the detectors share                   *)

\* lines 229-239, 273-283, 324-334: the candidate built from the rows at
\* positions start_idx, peak_idx and end_idx
MakeBloom(frame, start_idx, peak_idx, end_idx, conf, method) ==
    [start_date |-> Strftime(Iloc(frame, start_idx).date),
     peak_date |-> Strftime(Iloc(frame, peak_idx).date),
     end_date |-> Strftime(Iloc(frame, end_idx).date),
     duration_days |-> Iloc(frame, end_idx).date - Iloc(frame, start_idx).date,
     peak_ndvi |-> Iloc(frame, peak_idx).ndvi_smooth,
     peak_evi |-> Iloc(frame, peak_idx).evi_smooth,
     bloom_intensity |-> Iloc(frame, peak_idx).ndvi_smooth + Iloc(frame, peak_idx).evi_smooth,
     confidence_score |-> conf,
     detection_method |-> method]

\* Series.idxmax() of ndvi_smooth over the rows: the LABEL of the first row
\* holding the maximum
IdxMaxLabel(rows) ==
    LET top == MaxOf({rows[k].ndvi_smooth : k \in 1..Len(rows)})
        first == CHOOSE k \in 1..Len(rows) :
                    /\ rows[k].ndvi_smooth = top
                    /\ \A j \in 1..(k - 1) : rows[j].ndvi_smooth # top
    IN rows[first].label

\* line 227 and line 317: start_idx + idxmax() - bloom_data.index[0]
PeakIdxOf(start_idx, bloom_data) ==
    start_idx + IdxMaxLabel(bloom_data) - bloom_data[1].label

-----------------------------------------------------------------------------
(* _find_continuous_periods (389-405)                                      *)

\* the loop from position i; start_idx is -1 for None
RECURSIVE ScanPeriods(_, _, _, _)
ScanPeriods(mask, i, start_idx, periods) ==
    IF i >= Len(mask)
    THEN (IF start_idx # -1 THEN Append(periods, <<start_idx, Len(mask) - 1>>)
                            ELSE periods)
    ELSE IF mask[i + 1] /\ start_idx = -1
    THEN ScanPeriods(mask, i + 1, i, periods)
    ELSE IF ~mask[i + 1] /\ start_idx # -1
    THEN ScanPeriods(mask, i + 1, -1, Append(periods, <<start_idx, i - 1>>))
    ELSE ScanPeriods(mask, i + 1, start_idx, periods)

FindContinuousPeriods(mask) == ScanPeriods(mask, 0, -1, <<>>)

-----------------------------------------------------------------------------
(* _detect_threshold_blooms (210-246)                                      *)

\* lines 216-217
BloomMask(frame) ==
    [k \in 1..Len(frame) |->
       /\ frame[k].ndvi_smooth > ndvi_bloom_threshold * BloomScale(frame)
       /\ frame[k].evi_smooth > evi_bloom_threshold * BloomScale(frame)]

\* lines 222-240 from the k-th period on.  df.iloc[peak_idx] raises
\* IndexError when peak_idx is not a position of the frame.
RECURSIVE ThresholdLoop(_, _, _, _)
ThresholdLoop(frame, periods, k, blooms) ==
    IF k > Len(periods) THEN [raised |-> FALSE, blooms |-> blooms]
    ELSE LET start_idx == periods[k][1]
             end_idx == periods[k][2]
         IN IF end_idx - start_idx >= min_threshold_span
            THEN LET peak_idx ==
                       PeakIdxOf(start_idx, SubSeq(frame, start_idx + 1, end_idx + 1))
                 IN IF ~InFrame(frame, peak_idx)
                    THEN [raised |-> TRUE, blooms |-> <<>>]
                    ELSE ThresholdLoop(frame, periods, k + 1,
                           Append(blooms, MakeBloom(frame, start_idx, peak_idx, end_idx,
                                                    70, "threshold")))
            ELSE ThresholdLoop(frame, periods, k + 1, blooms)

\* the try block of the detector
ThresholdTry(frame) ==
    ThresholdLoop(frame, FindContinuousPeriods(BloomMask(frame)), 1, <<>>)

\* a detector without its except clause: the exception leaves the detector
NoRecover(outcome) == outcome

\* a detector's `except Exception: return []`
Recover(outcome) == IF outcome.raised THEN [raised |-> FALSE, blooms |-> <<>>] ELSE outcome

DetectThresholdBlooms(frame) == Recover(ThresholdTry(frame))

-----------------------------------------------------------------------------
(* _detect_peak_blooms (248-290) and scipy.signal.find_peaks               *)

NdviSmooth(frame) == [k \in 1..Len(frame) |-> frame[k].ndvi_smooth]

\* _local_maxima_1d: the midpoint of every flat stretch l..r that is strictly
\* higher than the samples on both sides; the first and last sample are
\* never peaks.  Positions count from 0; x is indexed from 1.
LocalMaxima(x) ==
    LET n == Len(x)
        Plateau(l, r) ==
            /\ \A i \in l..r : x[i + 1] = x[l + 1]
            /\ x[l] < x[l + 1]
            /\ x[r + 2] < x[l + 1]
    IN {q \in 1..(n - 2) : \E l \in 1..(n - 2), r \in 1..(n - 2) :
            l <= r /\ Plateau(l, r) /\ q = (l + r) \div 2}

\* the local maxima that pass height=ndvi_bloom_threshold, ascending
HighMaxima(x, scale) ==
    Ascending({p \in LocalMaxima(x) : x[p + 1] >= ndvi_bloom_threshold * scale})

\* the orders in which _select_by_peak_distance may visit the peaks: highest
\* priority first, peaks of equal height in an order argsort does not fix
VisitOrders(peaks, x) ==
    {f \in PermutationsOf(Len(peaks)) :
       \A i \in 1..(Len(peaks) - 1) : x[peaks[f[i]] + 1] >= x[peaks[f[i + 1]] + 1]}

\* _select_by_peak_distance from the i-th visit on: a peak still kept
\* removes every peak closer to it than `distance` samples
RECURSIVE SelectByDistance(_, _, _, _)
SelectByDistance(peaks, order, i, keep) ==
    IF i > Len(order) THEN keep
    ELSE LET j == order[i]
         IN IF j \notin keep THEN SelectByDistance(peaks, order, i + 1, keep)
            ELSE SelectByDistance(peaks, order, i + 1,
                   keep \ {k \in 1..Len(peaks) :
                             /\ k # j
                             /\ peaks[k] - peaks[j] < peak_distance
                             /\ peaks[j] - peaks[k] < peak_distance})

\* _peak_prominences: the peak's height above the higher of the two lowest
\* points between it and the next higher sample (or the series end) on each side
Prominence(x, p) ==
    LET n == Len(x)
        higherLeft == {i \in 0..(p - 1) : x[i + 1] > x[p + 1]}
        higherRight == {i \in (p + 1)..(n - 1) : x[i + 1] > x[p + 1]}
        lo == IF higherLeft = {} THEN 0 ELSE MaxOf(higherLeft) + 1
        hi == IF higherRight = {} THEN n - 1 ELSE MinOf(higherRight) - 1
        left_min == MinOf({x[i + 1] : i \in lo..p})
        right_min == MinOf({x[i + 1] : i \in p..hi})
    IN x[p + 1] - Max2(left_min, right_min)

\* find_peaks(x, height=ndvi_bloom_threshold, distance=3, prominence=0.1):
\* the peak positions, ascending, for one visiting order of the high maxima
FindPeaks(x, scale, order_of) ==
    LET high == HighMaxima(x, scale)
        kept == SelectByDistance(high, order_of, 1, 1..Len(high))
    IN Ascending({p \in {high[k] : k \in kept} :
                    Prominence(x, p) >= peak_prominence_min * scale})

\* _find_bloom_start (407-415)
FindBloomStart(frame, peak_idx, initial_start) ==
    LET below == {i \in initial_start..(peak_idx - 1) :
                    2 * Iloc(frame, i).ndvi_smooth < Iloc(frame, peak_idx).ndvi_smooth}
    IN IF below = {} THEN initial_start ELSE MaxOf(below) + 1

\* a forward search that stops on the first sample below half the peak
\* instead of before it
FindBloomEndOnLowSample(frame, peak_idx, initial_end) ==
    LET below == {i \in (peak_idx + 1)..initial_end :
                    2 * Iloc(frame, i).ndvi_smooth < Iloc(frame, peak_idx).ndvi_smooth}
    IN IF below = {} THEN initial_end ELSE MinOf(below)

\* _find_bloom_end (417-425)
FindBloomEnd(frame, peak_idx, initial_end) ==
    LET below == {i \in (peak_idx + 1)..initial_end :
                    2 * Iloc(frame, i).ndvi_smooth < Iloc(frame, peak_idx).ndvi_smooth}
    IN IF below = {} THEN initial_end ELSE MinOf(below) - 1

\* lines 261-284 for the peak at position peak_idx: its candidate, if kept
PeakBloom(frame, peak_idx) ==
    LET start_idx == FindBloomStart(frame, peak_idx, Max2(0, peak_idx - peak_window))
        end_idx == FindBloomEnd(frame, peak_idx,
                                Min2(Len(frame) - 1, peak_idx + peak_window))
        duration == Iloc(frame, end_idx).date - Iloc(frame, start_idx).date
    IN IF min_bloom_duration <= duration /\ duration <= max_bloom_duration
       THEN <<MakeBloom(frame, start_idx, peak_idx, end_idx, 80, "peak")>>
       ELSE <<>>

RECURSIVE PeakLoop(_, _, _)
PeakLoop(frame, peaks, k) ==
    IF k > Len(peaks) THEN <<>>
    ELSE PeakBloom(frame, peaks[k]) \o PeakLoop(frame, peaks, k + 1)

\* the try block of the detector; nothing in it raises on a cleaned frame
PeakTry(frame, order_of) ==
    [raised |-> FALSE,
     blooms |-> PeakLoop(frame, FindPeaks(NdviSmooth(frame), BloomScale(frame), order_of), 1)]

DetectPeakBlooms(frame, order_of) == Recover(PeakTry(frame, order_of))

-----------------------------------------------------------------------------
(* _detect_change_point_blooms (292-341)                                   *)

\* line 298: ndvi_smooth.diff(); the entry of the first row is NaN
NdviDiff(frame) ==
    [k \in 1..Len(frame) |->
       IF k = 1 THEN NaN ELSE frame[k].ndvi_smooth - frame[k - 1].ndvi_smooth]

\* |d| > 1.5 * std, std the sample standard deviation (ddof = 1) of the m
\* differences: 4 d^2 m (m - 1) > 9 (m * sum(d_i^2) - (sum d_i)^2).  With
\* fewer than two differences std is NaN and nothing compares greater.
\* The comparison is the same in any unit, so the differences are first
\* divided by their greatest common divisor.
BeyondStd(d, diffs) ==
    LET unit == Max2(1, GcdOf(SelectSeq(diffs, LAMBDA v : v # NaN)))
        valid == [k \in 1..Len(SelectSeq(diffs, LAMBDA v : v # NaN)) |->
                    SelectSeq(diffs, LAMBDA v : v # NaN)[k] \div unit]
        m == Len(valid)
        sum == SumSeq(valid)
        squares == SumSeq([k \in 1..m |-> valid[k] * valid[k]])
        e == d \div unit
    IN m >= 2 /\ 4 * e * e * m * (m - 1) > 9 * (m * squares - sum * sum)

\* lines 305-306: the LABELS of the rows whose difference is beyond the threshold
IncreasePoints(frame) ==
    LET diffs == NdviDiff(frame)
    IN Ascending({frame[k].label : k \in {j \in 2..Len(frame) :
                     diffs[j] > 0 /\ BeyondStd(diffs[j], diffs)}})

\* the rows whose difference is beyond the threshold on either side
DecreasePointsEitherSign(frame) ==
    LET diffs == NdviDiff(frame)
    IN Ascending({frame[k].label : k \in {j \in 2..Len(frame) :
                     diffs[j] # 0 /\ BeyondStd(diffs[j], diffs)}})

DecreasePoints(frame) ==
    LET diffs == NdviDiff(frame)
    IN Ascending({frame[k].label : k \in {j \in 2..Len(frame) :
                     diffs[j] < 0 /\ BeyondStd(diffs[j], diffs)}})

\* lines 309-335 from the k-th increase point on.  The labels are used as
\* positions: df.iloc[a:b] cuts the slice at the frame's end, idxmax() of an
\* empty slice raises ValueError and df.iloc[i] raises IndexError when i is
\* not a position of the frame.
RECURSIVE ChangePointLoop(_, _, _, _, _)
ChangePointLoop(frame, increase_points, decrease_points, k, blooms) ==
    IF k > Len(increase_points) THEN [raised |-> FALSE, blooms |-> blooms]
    ELSE LET start_idx == increase_points[k]
             end_candidates == {idx \in {decrease_points[j] : j \in 1..Len(decrease_points)} :
                                  idx > start_idx}
         IN IF end_candidates = {}
            THEN ChangePointLoop(frame, increase_points, decrease_points, k + 1, blooms)
            ELSE
              LET end_idx == MinOf(end_candidates)
                  bloom_data == SubSeq(frame, start_idx + 1, Min2(end_idx + 1, Len(frame)))
              IN IF bloom_data = <<>> \/ ~InFrame(frame, end_idx)
                 THEN [raised |-> TRUE, blooms |-> <<>>]
                 ELSE
                   LET peak_idx == PeakIdxOf(start_idx, bloom_data)
                       duration == Iloc(frame, end_idx).date - Iloc(frame, start_idx).date
                   IN IF min_bloom_duration <= duration /\ duration <= max_bloom_duration
                      THEN IF ~InFrame(frame, peak_idx)
                           THEN [raised |-> TRUE, blooms |-> <<>>]
                           ELSE IF Iloc(frame, peak_idx).ndvi_smooth
                                     > ndvi_bloom_threshold * BloomScale(frame)
                           THEN ChangePointLoop(frame, increase_points, decrease_points, k + 1,
                                  Append(blooms, MakeBloom(frame, start_idx, peak_idx, end_idx,
                                                           60, "change_point")))
                           ELSE ChangePointLoop(frame, increase_points, decrease_points,
                                                k + 1, blooms)
                      ELSE ChangePointLoop(frame, increase_points, decrease_points,
                                           k + 1, blooms)

ChangePointTry(frame) ==
    ChangePointLoop(frame, IncreasePoints(frame), DecreasePoints(frame), 1, <<>>)

DetectChangePointBlooms(frame) == Recover(ChangePointTry(frame))

-----------------------------------------------------------------------------
(* Candidates handed to the merger on its own                              *)

MaxCand == 3

Candidate(start, peak, end, ndvi, evi, conf, method) ==
    [start_date |-> Strftime(start), peak_date |-> Strftime(peak),
     end_date |-> Strftime(end), duration_days |-> end - start,
     peak_ndvi |-> ndvi, peak_evi |-> evi, bloom_intensity |-> ndvi + evi,
     confidence_score |-> conf, detection_method |-> method]

\* well-formed candidates: overlapping, 7 and 8 days apart, shorter than the
\* minimum, spanning a month end, and long enough to merge beyond the maximum
CandPool ==
    { Candidate(20, 28, 36, 500, 300, 70, "threshold"),
      Candidate(20, 24, 30, 400, 420, 80, "peak"),
      Candidate(28, 30, 38, 700, 260, 60, "change_point"),
      Candidate(44, 50, 64, 600, 500, 70, "threshold"),
      Candidate(43, 45, 48, 380, 280, 80, "peak"),
      Candidate(100, 150, 200, 800, 600, 60, "change_point"),
      Candidate(150, 180, 250, 450, 700, 80, "peak"),
      Candidate(20, 40, 80, 420, 270, 60, "change_point") }

\* no call of the service is in progress and nothing has advanced the
\* generator or the clock
NoForecast == now = 0 /\ rng = 0 /\ calls = <<>>

Idle ==
    /\ NoForecast
    /\ raw = <<>> /\ df = <<>>
    /\ threshold_blooms = <<>> /\ peak_blooms = <<>> /\ change_point_blooms = <<>>
    /\ merged = <<>> /\ merged_from = <<>> /\ result = <<>> /\ pheno = <<>>

InitMerge ==
    /\ pc = "merge_call"
    /\ bloom_events \in SeqOf(CandPool, MaxCand)
    /\ Idle

\* a direct call of _merge_bloom_events(bloom_events)
MergeCall ==
    /\ pc = "merge_call"
    /\ merged' = MergeBloomEvents(bloom_events)
    /\ merged_from' = MergeMembers(bloom_events)
    /\ bloom_events' = InputsAfterMerge(bloom_events)
    /\ pc' = "merge_done"
    /\ UNCHANGED <<raw, df, threshold_blooms, peak_blooms, change_point_blooms,
                   result, pheno,
                   now, rng, calls>>

NextMerge == MergeCall

SpecMerge == InitMerge /\ [][NextMerge]_vars

-----------------------------------------------------------------------------
(* detect_bloom_events (27-103), one action per statement of its try block *)

MaxLen == 7
MaxOddLen == 4
MaxHead == 2
MaxTail == 3
MaxSeasonLen == 15

\* one raw observation per letter: N has no NDVI, L is bare ground, M and H
\* are green (NDVI 0.5 and 1.0 with EVI 0.5)
Observation(letter, kind) ==
    IF letter = "N"
    THEN (IF kind = "out_of_range" THEN [ndvi |-> 1260, evi |-> 420]
          ELSE IF kind = "evi_missing" THEN [ndvi |-> 840, evi |-> NaN]
          ELSE [ndvi |-> NaN, evi |-> 420])
    ELSE IF letter = "L" THEN [ndvi |-> 0, evi |-> 0]
    ELSE IF letter = "M" THEN [ndvi |-> 420, evi |-> 420]
    ELSE [ndvi |-> 840, evi |-> 420]

\* the day of the k-th of n observations
ObservationDay(k, n, kind) ==
    IF kind = "every_48_days" THEN 48 * (k - 1)
    ELSE IF kind = "duplicate_date" THEN 16 * Max2(0, k - 2)
    ELSE IF kind = "unsorted" THEN 16 * (n - k)
    ELSE IF kind = "same_date" THEN 0
    ELSE 16 * (k - 1)

RawSeries(letters, kind) ==
    [k \in 1..Len(letters) |->
       [date |-> Strftime(ObservationDay(k, Len(letters), kind)),
        ndvi |-> Observation(letters[k], kind).ndvi,
        evi |-> Observation(letters[k], kind).evi]]

OddKinds == {"every_48_days", "duplicate_date", "unsorted", "out_of_range", "evi_missing"}

\* a gap one longer than the interpolation limit
LongGap == [k \in 1..(interpolate_limit + 1) |-> "N"]

\* n observations: bare ground but for a green spell of (at most) b
\* observations after the first a
Season(a, b, n) == [k \in 1..n |-> IF a < k /\ k <= a + b THEN "H" ELSE "L"]

\* n observations 16 days apart whose NDVI goes from `start` in steps of
\* `step`, the EVI being half the NDVI
Ramp(start, step, n) ==
    [k \in 1..n |->
       [date |-> Strftime(16 * (k - 1)),
        ndvi |-> start + step * (k - 1),
        evi |-> (start + step * (k - 1)) \div 2]]

\* The raw inputs:
\*  - every series of up to MaxLen observations 16 days apart over N, L, H;
\*  - for each odd kind, every series of up to MaxOddLen observations;
\*  - every series of 1..MaxHead observations, a gap of four missing NDVI
\*    values and up to MaxTail further observations, over L, M, H;
\*  - every season of 15..MaxSeasonLen observations: bare ground, a green
\*    spell, bare ground (the series long enough to be smoothed);
\*  - the constant series NDVI 0.1, EVI 0.05 and the ramps from 0.1 up and
\*    from 1.0 down in steps of 0.05, of 2..MaxLen and of 12..MaxSeasonLen
\*    observations.
RawInputs ==
    {RawSeries(letters, "every_16_days") : letters \in SeqOf({"N", "L", "H"}, MaxLen)}
    \cup UNION {{RawSeries(letters, kind) : letters \in SeqOf({"N", "L", "H"}, MaxOddLen)} :
                  kind \in OddKinds}
    \cup {RawSeries(head \o LongGap \o tail, "every_16_days") :
            head \in SeqOf({"L", "M", "H"}, MaxHead) \ {<<>>},
            tail \in SeqOf({"L", "M", "H"}, MaxTail)}
    \cup {RawSeries(Season(a, b, n), "every_16_days") :
            a \in 0..MaxSeasonLen, b \in 0..MaxSeasonLen, n \in 15..MaxSeasonLen}
    \cup {Ramp(84, step, n) : step \in {0, 42}, n \in (2..MaxLen) \cup (12..MaxSeasonLen)}
    \cup {Ramp(840, -42, n) : n \in (2..MaxLen) \cup (12..MaxSeasonLen)}

NoBlooms ==
    /\ threshold_blooms = <<>> /\ peak_blooms = <<>> /\ change_point_blooms = <<>>
    /\ bloom_events = <<>> /\ merged = <<>> /\ merged_from = <<>>

InitDetect ==
    /\ pc = "detect_call"
    /\ raw \in RawInputs
    /\ df = <<>> /\ result = <<>> /\ pheno = <<>>
    /\ NoBlooms /\ NoForecast

\* lines 45-53
DetectLoad ==
    /\ pc = "detect_call"
    /\ IF raw = <<>>
       THEN pc' = "detect_done" /\ df' = df
       ELSE pc' = "clean" /\ df' = LoadFrame(raw)
    /\ UNCHANGED <<raw, threshold_blooms, peak_blooms, change_point_blooms,
                   bloom_events, merged, merged_from, result, pheno,
                   now, rng, calls>>

\* line 56
DetectClean ==
    /\ pc = "clean"
    /\ df' = CleanTimeSeries(df)
    /\ pc' = "smooth"
    /\ UNCHANGED <<raw, threshold_blooms, peak_blooms, change_point_blooms,
                   bloom_events, merged, merged_from, result, pheno,
                   now, rng, calls>>

\* line 59
DetectSmooth ==
    /\ pc = "smooth"
    /\ df' = SmoothTimeSeries(df)
    /\ pc' = "threshold"
    /\ UNCHANGED <<raw, threshold_blooms, peak_blooms, change_point_blooms,
                   bloom_events, merged, merged_from, result, pheno,
                   now, rng, calls>>

\* lines 65-66; an exception leaving the detector is caught at line 101
DetectThreshold ==
    /\ pc = "threshold"
    /\ LET outcome == DetectThresholdBlooms(df)
       IN IF outcome.raised
          THEN pc' = "detect_failed" /\ threshold_blooms' = threshold_blooms
          ELSE pc' = "peak" /\ threshold_blooms' = outcome.blooms
    /\ UNCHANGED <<raw, df, peak_blooms, change_point_blooms,
                   bloom_events, merged, merged_from, result, pheno,
                   now, rng, calls>>

\* lines 69-70
DetectPeak ==
    /\ pc = "peak"
    /\ \E order_of \in VisitOrders(HighMaxima(NdviSmooth(df), BloomScale(df)), NdviSmooth(df)) :
         LET outcome == DetectPeakBlooms(df, order_of)
         IN IF outcome.raised
            THEN pc' = "detect_failed" /\ peak_blooms' = peak_blooms
            ELSE pc' = "change_point" /\ peak_blooms' = outcome.blooms
    /\ UNCHANGED <<raw, df, threshold_blooms, change_point_blooms,
                   bloom_events, merged, merged_from, result, pheno,
                   now, rng, calls>>

\* lines 73-74
DetectChangePoint ==
    /\ pc = "change_point"
    /\ LET outcome == DetectChangePointBlooms(df)
       IN IF outcome.raised
          THEN pc' = "detect_failed" /\ change_point_blooms' = change_point_blooms
          ELSE pc' = "merge" /\ change_point_blooms' = outcome.blooms
    /\ UNCHANGED <<raw, df, threshold_blooms, peak_blooms,
                   bloom_events, merged, merged_from, result, pheno,
                   now, rng, calls>>

\* line 77, on the three lists chained at lines 66, 70 and 74
DetectMerge ==
    /\ pc = "merge"
    /\ bloom_events' = threshold_blooms \o peak_blooms \o change_point_blooms
    /\ merged' = MergeBloomEvents(bloom_events')
    /\ merged_from' = MergeMembers(bloom_events')
    /\ pc' = "finish"
    /\ UNCHANGED <<raw, df, threshold_blooms, peak_blooms, change_point_blooms,
                   result, pheno,
                   now, rng, calls>>

\* lines 80-99: the returned list carries every merged event's fields (the
\* id, location, stage and species hints added to each are left out)
DetectFinish ==
    /\ pc = "finish"
    /\ result' = merged
    /\ pc' = "detect_done"
    /\ UNCHANGED <<raw, df, threshold_blooms, peak_blooms, change_point_blooms,
                   bloom_events, merged, merged_from, pheno,
                   now, rng, calls>>

NextDetect ==
    \/ DetectLoad
    \/ DetectClean
    \/ DetectSmooth
    \/ DetectThreshold
    \/ DetectPeak
    \/ DetectChangePoint
    \/ DetectMerge
    \/ DetectFinish

SpecDetect == InitDetect /\ [][NextDetect]_vars

-----------------------------------------------------------------------------
(* The preprocessor on its own: _clean_time_series, then                   *)
(* _smooth_time_series, applied to a series and then to its own output     *)

\* a season of n observations whose second to fifth NDVI are missing
GappySeason(a, b, n) == [k \in 1..n |-> IF k \in 2..5 THEN "N" ELSE Season(a, b, n)[k]]

\* the raw inputs of the detection, and the gappy seasons long enough to be
\* smoothed after cleaning
PreprocessInputs ==
    (RawInputs \ {<<>>})
    \cup {RawSeries(GappySeason(a, b, n), "every_16_days") :
            a \in {0, 6}, b \in 0..MaxSeasonLen, n \in 16..(MaxSeasonLen + 1)}
    \cup {RawSeries(Season(a, 3, n), "every_16_days") : a \in {0, 4}, n \in 12..14}

InitPreprocess ==
    /\ pc = "preprocess_call"
    /\ raw \in PreprocessInputs
    /\ df = <<>> /\ result = <<>> /\ pheno = <<>>
    /\ NoBlooms /\ NoForecast

\* lines 51-59, as detect_bloom_events and forecast_bloom_events run them
Preprocess ==
    /\ pc = "preprocess_call"
    /\ df' = SmoothTimeSeries(CleanTimeSeries(LoadFrame(raw)))
    /\ pc' = "preprocess_again"
    /\ UNCHANGED <<raw, threshold_blooms, peak_blooms, change_point_blooms,
                   bloom_events, merged, merged_from, result, pheno,
                   now, rng, calls>>

\* lines 165-208 on the frame they returned
PreprocessAgain ==
    /\ pc = "preprocess_again"
    /\ result' = SmoothTimeSeries(CleanTimeSeries(df))
    /\ pc' = "preprocess_done"
    /\ UNCHANGED <<raw, df, threshold_blooms, peak_blooms, change_point_blooms,
                   bloom_events, merged, merged_from, pheno,
                   now, rng, calls>>

NextPreprocess ==
    \/ Preprocess
    \/ PreprocessAgain

SpecPreprocess == InitPreprocess /\ [][NextPreprocess]_vars

-----------------------------------------------------------------------------
(* phenology_service.py: _clean_and_smooth_data (129-171)                  *)

sos_threshold_inverse == 5
eos_threshold_inverse == 5
min_data_points == 10
max_gap_days == 32
zscore_limit == 3
modis_composite_days == 16
enough_observations == 20
variability_inverse == 5

HasNaN(col) == \E k \in 1..Len(col) : col[k] = NaN

\* the frame carries the smoothed columns
HasSmooth(frame) == frame # <<>> /\ "ndvi_smooth" \in DOMAIN frame[1]

\* lines 140-141 on a column without NaN: |zscore| > 3 with the population
\* standard deviation, (n x - sum)^2 > 9 (n sum(x_i^2) - sum^2), the values
\* divided by their greatest common divisor first.  zscore of a constant
\* column is 0/0 = NaN, which does not compare greater than 3.
ZScoreMask(col) ==
    LET unit == Max2(1, GcdOf(col))
        y == [k \in 1..Len(col) |-> col[k] \div unit]
        n == Len(col)
        sum == SumSeq(y)
        squares == SumSeq([k \in 1..n |-> y[k] * y[k]])
    IN [k \in 1..n |->
          IF (n * y[k] - sum) * (n * y[k] - sum)
                > zscore_limit * zscore_limit * (n * squares - sum * sum)
          THEN NaN ELSE col[k]]

\* lines 151-165
PhenoWindow(n) ==
    IF n >= 7
    THEN LET w == Min2(7, n \div 2) IN IF w % 2 = 0 THEN w + 1 ELSE w
    ELSE 1

PhenoSmooth(frame) ==
    LET w == PhenoWindow(Len(frame)) IN
    IF w >= 5
    THEN LET ns == SavgolFilter([k \in 1..Len(frame) |-> frame[k].ndvi], w)
             es == SavgolFilter([k \in 1..Len(frame) |-> frame[k].evi], w)
         IN [k \in 1..Len(frame) |->
               [label |-> frame[k].label, date |-> frame[k].date,
                ndvi |-> frame[k].ndvi, evi |-> frame[k].evi,
                ndvi_smooth |-> ns[k], evi_smooth |-> es[k]]]
    ELSE [k \in 1..Len(frame) |->
               [label |-> frame[k].label, date |-> frame[k].date,
                ndvi |-> frame[k].ndvi, evi |-> frame[k].evi,
                ndvi_smooth |-> frame[k].ndvi, evi_smooth |-> frame[k].evi]]

\* the unit of the smoothed columns of a frame the phenology service
\* smoothed: 1.0 is 840 * PhenoScale(frame)
PhenoScale(frame) == SavgolScale(PhenoWindow(Len(frame)))

WithColumns(frame, ndvi, evi) ==
    [k \in 1..Len(frame) |-> [frame[k] EXCEPT !.ndvi = ndvi[k], !.evi = evi[k]]]

\* The whole function.  zscore is given the column without its NaNs, so
\* when the column has a NaN (missing, or just masked as out of range) the
\* boolean mask is shorter than the index it is applied to and line 141
\* raises IndexError: the except clause returns the frame as it is by then,
\* not interpolated, with every row and without the smoothed columns.
CleanAndSmoothData(frame) ==
    LET ndvi_raw == [k \in 1..Len(frame) |-> frame[k].ndvi]
        evi_raw == [k \in 1..Len(frame) |-> frame[k].evi]
        ndvi_ranged == [k \in 1..Len(frame) |-> MaskOutlier(ndvi_raw[k])]
        evi_ranged == [k \in 1..Len(frame) |-> MaskOutlier(evi_raw[k])]
    IN IF HasNaN(ndvi_ranged) THEN WithColumns(frame, ndvi_ranged, evi_raw)
       ELSE IF HasNaN(evi_ranged)
       THEN WithColumns(frame, ZScoreMask(ndvi_ranged), evi_ranged)
       ELSE PhenoSmooth(DropNa(WithColumns(frame,
                                           Interpolate(ZScoreMask(ndvi_ranged)),
                                           Interpolate(ZScoreMask(evi_ranged)))))

-----------------------------------------------------------------------------
(* _calculate_basic_statistics (173-209): the statistics of the smoothed   *)
(* NDVI that the phase detection reads; {} when the frame has no smoothed  *)
(* columns (KeyError at line 176)                                          *)

EmptyDict == <<>>

CalculateBasicStatistics(frame) ==
    IF ~HasSmooth(frame) THEN EmptyDict
    ELSE LET values == {frame[k].ndvi_smooth : k \in 1..Len(frame)}
         IN [ndvi |-> [min |-> MinOf(values), max |-> MaxOf(values),
                       amplitude |-> MaxOf(values) - MinOf(values)]]

-----------------------------------------------------------------------------
(* _detect_phenology_phases (211-289)                                      *)

None == -1

\* ndvi >= baseline + amplitude * 0.2 (line 228), and its negation at line
\* 238.  0.2 is not a binary fraction: when ndvi lies exactly on the
\* threshold and the amplitude is not 0, the rounding of the product decides,
\* which rounds_up stands for.
ReachesThreshold(ndvi, baseline, amplitude, inverse, rounds_up) ==
    \/ inverse * (ndvi - baseline) > amplitude
    \/ inverse * (ndvi - baseline) = amplitude /\ (amplitude = 0 \/ ~rounds_up)

\* lines 226-230: the first position at or above sos_value
FindSos(ndvi_values, baseline, amplitude, rounds_up) ==
    LET hits == {i \in 0..(Len(ndvi_values) - 1) :
                   ReachesThreshold(ndvi_values[i + 1], baseline, amplitude,
                                    sos_threshold_inverse, rounds_up)}
    IN IF hits = {} THEN None ELSE MinOf(hits)

\* line 233: np.argmax, the first position of the maximum
ArgMax(ndvi_values) ==
    MinOf({i \in 0..(Len(ndvi_values) - 1) :
             \A j \in 1..Len(ndvi_values) : ndvi_values[j] <= ndvi_values[i + 1]})

\* a scan for the end of season over the whole series
FindEosFromStart(ndvi_values, pos_idx, baseline, amplitude, rounds_up) ==
    LET hits == {i \in 0..(Len(ndvi_values) - 1) :
                   ~ReachesThreshold(ndvi_values[i + 1], baseline, amplitude,
                                     eos_threshold_inverse, rounds_up)}
    IN IF hits = {} THEN Len(ndvi_values) - 1 ELSE MinOf(hits)

\* lines 236-244: the first position from the peak on below eos_value, the
\* last position when there is none
FindEos(ndvi_values, pos_idx, baseline, amplitude, rounds_up) ==
    LET hits == {i \in pos_idx..(Len(ndvi_values) - 1) :
                   ~ReachesThreshold(ndvi_values[i + 1], baseline, amplitude,
                                     eos_threshold_inverse, rounds_up)}
    IN IF hits = {} THEN Len(ndvi_values) - 1 ELSE MinOf(hits)

\* The function up to its return.  df['date'].values is an array of
\* numpy.datetime64, which has neither strftime nor timetuple: building the
\* peak_of_season entry (line 254, or line 249 before it) raises
\* AttributeError on every frame, and the except clause returns {}.  Without
\* the smoothed columns line 214 raises KeyError before any index is set.
DetectPhenologyPhases(frame, basic_stats, rounds_up) ==
    IF ~HasSmooth(frame)
    THEN [sos_idx |-> None, pos_idx |-> None, eos_idx |-> None, phases |-> EmptyDict]
    ELSE LET ndvi_values == NdviSmooth(frame)
             baseline == basic_stats.ndvi.min
             amplitude == basic_stats.ndvi.amplitude
             pos_idx == ArgMax(ndvi_values)
         IN [sos_idx |-> FindSos(ndvi_values, baseline, amplitude, rounds_up),
             pos_idx |-> pos_idx,
             eos_idx |-> FindEos(ndvi_values, pos_idx, baseline, amplitude, rounds_up),
             phases |-> EmptyDict]

-----------------------------------------------------------------------------
(* _calculate_change_rates (291-351).  A rate is held as the kind of float *)
(* it is: "finite", "inf", "-inf" or "nan".                                *)

\* a reading of line 299 in which the dates have a timestamp() method
TimestampsOfDatetimes(frame) ==
    [raised |-> FALSE, days |-> [k \in 1..Len(frame) |-> frame[k].date]]

\* line 299, [d.timestamp() for d in dates]: the dates are numpy.datetime64
\* values, which have no timestamp method, so the first one raises
\* AttributeError
TimestampsOf(frame) ==
    [raised |-> frame # <<>>, days |-> <<>>]

\* line 300: a numpy division; x / 0 is inf, -inf or (0 / 0) nan
RateKind(change, days) ==
    IF days # 0 THEN "finite"
    ELSE IF change > 0 THEN "inf" ELSE IF change < 0 THEN "-inf" ELSE "nan"

MeanKind(kinds) ==
    IF "nan" \in kinds \/ {"inf", "-inf"} \subseteq kinds THEN "nan"
    ELSE IF "inf" \in kinds THEN "inf"
    ELSE IF "-inf" \in kinds THEN "-inf" ELSE "finite"

MaxKind(kinds) ==
    IF "nan" \in kinds THEN "nan"
    ELSE IF "inf" \in kinds THEN "inf"
    ELSE IF kinds = {"-inf"} THEN "-inf" ELSE "finite"

MinKind(kinds) ==
    IF "nan" \in kinds THEN "nan"
    ELSE IF "-inf" \in kinds THEN "-inf"
    ELSE IF kinds = {"inf"} THEN "inf" ELSE "finite"

StdKind(kinds) == IF kinds = {"finite"} THEN "finite" ELSE "nan"

\* lines 294-310 and the except clause.  The phase-specific rates of lines
\* 313-345 are computed from the dates of phenology_phases only, and are
\* skipped when it has none.
CalculateChangeRates(frame, phenology_phases) ==
    IF ~HasSmooth(frame) THEN EmptyDict
    ELSE LET stamps == TimestampsOf(frame) IN
         IF stamps.raised THEN EmptyDict
         ELSE LET ndvi_values == NdviSmooth(frame)
                  daily_rates == {RateKind(ndvi_values[k + 1] - ndvi_values[k],
                                           stamps.days[k + 1] - stamps.days[k]) :
                                    k \in 1..(Len(frame) - 1)}
              IN [overall |-> [mean_daily_change |-> MeanKind(daily_rates),
                               max_daily_increase |-> MaxKind(daily_rates),
                               max_daily_decrease |-> MinKind(daily_rates),
                               std_daily_change |-> StdKind(daily_rates)]]

-----------------------------------------------------------------------------
(* _assess_data_quality (353-402).  Ratios and factors are held in         *)
(* hundredths, rounded down; the score, the mean of four factors, as their *)
(* sum (400 * score).                                                      *)

\* lines 360-365
TemporalCompleteness(frame) ==
    IF Len(frame) > 1
    THEN LET date_range == frame[Len(frame)].date - frame[1].date
         IN IF date_range > 0
            THEN Min2(100, (100 * modis_composite_days * Len(frame)) \div date_range)
            ELSE 0
    ELSE 0

DateDiffs(frame) == [k \in 1..(Len(frame) - 1) |-> frame[k + 1].date - frame[k].date]

\* line 381: min(1.0, ndvi_smooth.std() / 0.2) with the sample standard
\* deviation of the n smoothed values y_i * unit: the largest r <= 100 with
\* (r / 100)^2 <= 25 * (n sum(y_i^2) - (sum y_i)^2) / (n (n - 1)) in index
\* units.  std() of a single value is NaN, and min(1.0, NaN) is 1.0.
VariabilityFactor(frame) ==
    LET values == NdviSmooth(frame)
        n == Len(values)
        unit == Max2(1, GcdOf(values))
        y == [k \in 1..n |-> values[k] \div unit]
        spread == n * SumSeq([k \in 1..n |-> y[k] * y[k]]) - SumSeq(y) * SumSeq(y)
        pairs == n * (n - 1)
        common == Gcd(100 * variability_inverse * unit, 840 * PhenoScale(frame))
        p == (100 * variability_inverse * unit) \div common
        q == (840 * PhenoScale(frame)) \div common
    IN IF n < 2 THEN 100
       ELSE IF spread = 0 THEN 0
       ELSE IF spread >= (10000 * q * q * pairs + p * p - 1) \div (p * p) THEN 100
       ELSE MaxOf({r \in 0..99 : r * r * q * q * pairs <= p * p * spread})

\* lines 404-413 on 400 * quality_score
GetQualityRating(score_sum) ==
    IF score_sum >= 320 THEN "excellent"
    ELSE IF score_sum >= 240 THEN "good"
    ELSE IF score_sum >= 160 THEN "fair" ELSE "poor"

\* the except clause's result (line 402)
QualityFallback == [overall_quality_score |-> 0, quality_rating |-> "poor"]

\* Without the smoothed columns line 381 raises KeyError.
AssessDataQuality(frame, total_possible_obs) ==
    IF ~HasSmooth(frame) THEN QualityFallback
    ELSE
      LET valid_obs == Len(frame)
          temporal_completeness == TemporalCompleteness(frame)
          date_diffs == DateDiffs(frame)
          max_gap == IF Len(frame) > 1
                     THEN MaxOf({date_diffs[k] : k \in 1..Len(date_diffs)}) ELSE 0
          mean_gap == IF Len(frame) > 1
                      THEN (100 * SumSeq(date_diffs)) \div Len(date_diffs) ELSE 0
          gap_count == IF Len(frame) > 1
                       THEN Cardinality({k \in 1..Len(date_diffs) :
                                           date_diffs[k] > max_gap_days})
                       ELSE 0
          quality_factors ==
              << Min2(100, (100 * valid_obs) \div enough_observations),
                 temporal_completeness,
                 IF valid_obs > 0
                 THEN Max2(0, (100 * (valid_obs - gap_count)) \div valid_obs) ELSE 0,
                 VariabilityFactor(frame) >>
      IN [data_completeness |-> IF total_possible_obs > 0
                                THEN (100 * valid_obs) \div total_possible_obs ELSE 0,
          temporal_completeness |-> temporal_completeness,
          valid_observations |-> valid_obs,
          total_observations |-> total_possible_obs,
          max_gap_days |-> max_gap,
          mean_gap_days |-> mean_gap,
          large_gap_count |-> gap_count,
          overall_quality_score |-> SumSeq(quality_factors),
          quality_rating |-> GetQualityRating(SumSeq(quality_factors))]

-----------------------------------------------------------------------------
(* calculate_phenology_metrics (30-87), one action per statement           *)

PhenoMaxLen == 11

\* n observations: a missing NDVI first (with_gap), then b green
\* observations, then bare ground
Pattern(with_gap, b, n) ==
    [k \in 1..n |-> IF with_gap /\ k = 1 THEN "N"
                    ELSE IF k <= b THEN "H" ELSE "L"]

PhenoKinds == {"every_16_days", "every_48_days", "duplicate_date", "unsorted",
               "same_date", "out_of_range", "evi_missing"}

\* The raw inputs:
\*  - every series of 10..PhenoMaxLen observations 16 days apart over L, H;
\*  - for each kind of series, every pattern of 9..PhenoMaxLen observations;
\*  - the empty series.
PhenoInputs ==
    UNION {{RawSeries(letters, "every_16_days") : letters \in [1..n -> {"L", "H"}]} :
             n \in min_data_points..PhenoMaxLen}
    \cup {RawSeries(Pattern(with_gap, b, n), kind) :
            with_gap \in BOOLEAN, b \in 0..PhenoMaxLen,
            n \in (min_data_points - 1)..PhenoMaxLen, kind \in PhenoKinds}
    \cup {<<>>}

PhenoBlank ==
    [basic_stats |-> EmptyDict, sos_idx |-> None, pos_idx |-> None, eos_idx |-> None,
     phenology_phases |-> EmptyDict, change_rates |-> EmptyDict,
     quality_metrics |-> EmptyDict]

InitPheno ==
    /\ pc = "pheno_call"
    /\ raw \in PhenoInputs
    /\ df = <<>> /\ result = <<>> /\ pheno = PhenoBlank
    /\ NoBlooms /\ NoForecast

\* lines 41-49
PhenoLoad ==
    /\ pc = "pheno_call"
    /\ IF Len(raw) < min_data_points
       THEN /\ result' = [error |-> "Insufficient data for phenology analysis"]
            /\ pc' = "pheno_done" /\ df' = df
       ELSE /\ df' = LoadFrame(raw)
            /\ pc' = "pheno_clean" /\ result' = result
    /\ UNCHANGED <<raw, threshold_blooms, peak_blooms, change_point_blooms,
                   bloom_events, merged, merged_from, pheno,
                   now, rng, calls>>

\* lines 52-55
PhenoClean ==
    /\ pc = "pheno_clean"
    /\ df' = CleanAndSmoothData(df)
    /\ IF Len(df') < min_data_points
       THEN /\ result' = [error |-> "Insufficient valid data after cleaning"]
            /\ pc' = "pheno_done"
       ELSE pc' = "pheno_stats" /\ result' = result
    /\ UNCHANGED <<raw, threshold_blooms, peak_blooms, change_point_blooms,
                   bloom_events, merged, merged_from, pheno,
                   now, rng, calls>>

\* line 58
PhenoStats ==
    /\ pc = "pheno_stats"
    /\ pheno' = [pheno EXCEPT !.basic_stats = CalculateBasicStatistics(df)]
    /\ pc' = "pheno_phases"
    /\ UNCHANGED <<raw, df, threshold_blooms, peak_blooms, change_point_blooms,
                   bloom_events, merged, merged_from, result,
                   now, rng, calls>>

\* line 61
PhenoPhases ==
    /\ pc = "pheno_phases"
    /\ \E rounds_up \in BOOLEAN :
         LET found == DetectPhenologyPhases(df, pheno.basic_stats, rounds_up)
         IN pheno' = [pheno EXCEPT !.sos_idx = found.sos_idx,
                                   !.pos_idx = found.pos_idx,
                                   !.eos_idx = found.eos_idx,
                                   !.phenology_phases = found.phases]
    /\ pc' = "pheno_rates"
    /\ UNCHANGED <<raw, df, threshold_blooms, peak_blooms, change_point_blooms,
                   bloom_events, merged, merged_from, result,
                   now, rng, calls>>

\* line 64
PhenoRates ==
    /\ pc = "pheno_rates"
    /\ pheno' = [pheno EXCEPT
                   !.change_rates = CalculateChangeRates(df, pheno.phenology_phases)]
    /\ pc' = "pheno_quality"
    /\ UNCHANGED <<raw, df, threshold_blooms, peak_blooms, change_point_blooms,
                   bloom_events, merged, merged_from, result,
                   now, rng, calls>>

\* line 67
PhenoQuality ==
    /\ pc = "pheno_quality"
    /\ pheno' = [pheno EXCEPT !.quality_metrics = AssessDataQuality(df, Len(raw))]
    /\ pc' = "pheno_return"
    /\ UNCHANGED <<raw, df, threshold_blooms, peak_blooms, change_point_blooms,
                   bloom_events, merged, merged_from, result,
                   now, rng, calls>>

\* lines 70-83
PhenoReturn ==
    /\ pc = "pheno_return"
    /\ result' = [basic_statistics |-> pheno.basic_stats,
                  phenology_phases |-> pheno.phenology_phases,
                  change_rates |-> pheno.change_rates,
                  quality_metrics |-> pheno.quality_metrics,
                  analysis_period |->
                     [start_date |-> Strftime(df[1].date),
                      end_date |-> Strftime(df[Len(df)].date),
                      total_days |-> df[Len(df)].date - df[1].date,
                      observations |-> Len(df)]]
    /\ pc' = "pheno_done"
    /\ UNCHANGED <<raw, df, threshold_blooms, peak_blooms, change_point_blooms,
                   bloom_events, merged, merged_from, pheno,
                   now, rng, calls>>

NextPheno ==
    \/ PhenoLoad
    \/ PhenoClean
    \/ PhenoStats
    \/ PhenoPhases
    \/ PhenoRates
    \/ PhenoQuality
    \/ PhenoReturn

SpecPheno == InitPheno /\ [][NextPheno]_vars

-----------------------------------------------------------------------------
(* forecast_bloom_events (105-163) and its helpers (478-602)                *)

min_history == 50              \* line 127
default_baseline_ndvi == 252   \* 0.3, lines 525 and 528
default_baseline_evi == 168    \* 0.2, lines 526 and 529
ndvi_noise_sd == 42            \* 0.05, line 532
evi_noise_sd_times_5 == 126    \* 0.03, line 533: 25.2 index units
min_forecast_span == 2         \* line 561
bloom_probability == 70        \* 0.7, line 572
ndvi_uncertainty == 84         \* 0.1, lines 574-575
date_uncertainty_days == 5     \* line 576
full_history == 100            \* line 591
data_quality_weight == 60      \* 0.6, line 597
pattern_weight == 40           \* 0.4, line 597

\* The number num / den of index units (840 is 1.0), in lowest terms: the
\* monthly means, the forecast values and whatever is computed from them
Ratio(num, den) ==
    LET g == Gcd(Abs(num), den) IN [num |-> num \div g, den |-> den \div g]

RatioLess(a, b) == a.num * b.den < b.num * a.den

\* a + k for a whole number k of index units
RatioPlus(a, k) == Ratio(a.num + k * a.den, a.den)

RatioMinus(a, b) == Ratio(a.num * b.den - b.num * a.den, a.den * b.den)

\* date.month of a Timestamp
MonthOf(day) == Strftime(day)[2]

\* line 485: groupby('month')[column].mean() of a frame with rows
MonthlyMean(frame, column) ==
    [m \in {MonthOf(frame[k].date) : k \in 1..Len(frame)} |->
       LET rows == SelectSeq(frame, LAMBDA r : MonthOf(r.date) = m)
       IN Ratio(SumSeq([k \in 1..Len(rows) |-> rows[k][column]]),
                Len(rows) * BloomScale(frame))]

\* lines 478-505.  On a frame without rows idxmax raises and the except
\* clause returns {}.  idxmax returns the first of the months whose mean is
\* the largest (two means that are equal here are told apart by the rounding
\* of the floating-point sums; which one wins is fixed by the input).
ExtractSeasonalPatterns(frame) ==
    IF frame = <<>> THEN EmptyDict
    ELSE LET ndvi == MonthlyMean(frame, "ndvi_smooth")
             months == DOMAIN ndvi
             peak_month == CHOOSE m \in months :
                              /\ \A o \in months : ~RatioLess(ndvi[m], ndvi[o])
                              /\ \A o \in months : o < m => RatioLess(ndvi[o], ndvi[m])
             low_month == CHOOSE m \in months : \A o \in months : ~RatioLess(ndvi[o], ndvi[m])
         IN [peak_month |-> peak_month,
             seasonal_amplitude |-> RatioMinus(ndvi[peak_month], ndvi[low_month]),
             monthly_averages |-> [ndvi_smooth |-> ndvi,
                                   evi_smooth |-> MonthlyMean(frame, "evi_smooth")],
             typical_bloom_period |->
                [start_month |-> ((peak_month - 1) % 12) + 1,
                 end_month |-> ((peak_month + 1) % 12) + 1]]

\* lines 521-529: the climatology of the month, or the default
Baseline(seasonal_patterns, column, month, default) ==
    IF seasonal_patterns = EmptyDict THEN Ratio(default, 1)
    ELSE IF month \in DOMAIN seasonal_patterns.monthly_averages[column]
    THEN seasonal_patterns.monthly_averages[column][month]
    ELSE Ratio(default, 1)

\* lines 537-538: max(0, min(1, x))
Clip(x) ==
    LET capped == IF RatioLess(x, Ratio(840, 1)) THEN x ELSE Ratio(840, 1)
    IN IF RatioLess(Ratio(0, 1), capped) THEN capped ELSE Ratio(0, 1)

\* The process-wide generator behind np.random.normal: a deterministic
\* automaton.  A state yields one standard normal value (here a whole
\* number, always a multiple of 5) and the next state; np.random.seed(s)
\* puts the generator into a state that s fixes.
NormalTable == <<0, 5, 0, 0, 5, 0, -40, 40>>

StandardNormal(state) == NormalTable[(state % Len(NormalTable)) + 1]

NextState(state) == (state + 1) % Len(NormalTable)

SeedState(seed) == seed % Len(NormalTable)

\* line 532, before the clipping of line 537
NdviForecast(seasonal_patterns, date, state) ==
    RatioPlus(Baseline(seasonal_patterns, "ndvi_smooth", MonthOf(date), default_baseline_ndvi),
              ndvi_noise_sd * StandardNormal(state))

\* line 533, before the clipping of line 538
EviForecast(seasonal_patterns, date, state) ==
    RatioPlus(Baseline(seasonal_patterns, "evi_smooth", MonthOf(date), default_baseline_evi),
              (evi_noise_sd_times_5 * StandardNormal(state)) \div 5)

\* lines 535-539
ForecastPoint(date, ndvi_forecast, evi_forecast) ==
    [date |-> date, ndvi_forecast |-> Clip(ndvi_forecast), evi_forecast |-> Clip(evi_forecast)]

\* line 511: df['date'].max() of a frame with rows
LastDate(frame) == MaxOf({frame[k].date : k \in 1..Len(frame)})

\* lines 512-541, every draw of the loop taken from the generator in turn
\* with nothing else drawing in between: the points from the k-th date on,
\* the generator being in `state`
RECURSIVE GenerateForecast(_, _, _, _, _)
GenerateForecast(seasonal_patterns, last_date, forecast_days, k, state) ==
    IF k > forecast_days THEN <<>>
    ELSE <<ForecastPoint(last_date + k,
                         NdviForecast(seasonal_patterns, last_date + k, state),
                         EviForecast(seasonal_patterns, last_date + k, NextState(state)))>>
         \o GenerateForecast(seasonal_patterns, last_date, forecast_days, k + 1,
                             NextState(NextState(state)))

\* lines 554-555
ForecastMask(forecast_df) ==
    [k \in 1..Len(forecast_df) |->
       /\ RatioLess(Ratio(ndvi_bloom_threshold, 1), forecast_df[k].ndvi_forecast)
       /\ RatioLess(Ratio(evi_bloom_threshold, 1), forecast_df[k].evi_forecast)]

\* lines 562-563 on the RangeIndex of the forecast frame: the position of
\* the first row of start_idx..end_idx holding the largest ndvi_forecast
ForecastPeakIdx(forecast_df, start_idx, end_idx) ==
    CHOOSE p \in start_idx..end_idx :
       /\ \A q \in start_idx..end_idx :
             ~RatioLess(forecast_df[p + 1].ndvi_forecast, forecast_df[q + 1].ndvi_forecast)
       /\ \A q \in start_idx..(p - 1) :
             RatioLess(forecast_df[q + 1].ndvi_forecast, forecast_df[p + 1].ndvi_forecast)

\* lines 565-578
ForecastBloom(forecast_df, start_idx, end_idx) ==
    LET peak == forecast_df[ForecastPeakIdx(forecast_df, start_idx, end_idx) + 1]
    IN [start_date |-> Strftime(forecast_df[start_idx + 1].date),
        peak_date |-> Strftime(peak.date),
        end_date |-> Strftime(forecast_df[end_idx + 1].date),
        duration_days |-> forecast_df[end_idx + 1].date - forecast_df[start_idx + 1].date,
        predicted_peak_ndvi |-> peak.ndvi_forecast,
        predicted_peak_evi |-> peak.evi_forecast,
        bloom_probability |-> bloom_probability,
        uncertainty_range |->
           [ndvi_min |-> RatioPlus(peak.ndvi_forecast, -ndvi_uncertainty),
            ndvi_max |-> RatioPlus(peak.ndvi_forecast, ndvi_uncertainty),
            date_uncertainty_days |-> date_uncertainty_days]]

\* lines 547-585
DetectForecastBlooms(forecast_df) ==
    LET periods == FindContinuousPeriods(ForecastMask(forecast_df))
        long == SelectSeq(periods, LAMBDA p : p[2] - p[1] >= min_forecast_span)
    IN [k \in 1..Len(long) |-> ForecastBloom(forecast_df, long[k][1], long[k][2])]

\* round(x, 2) of x = num / den hundredths; a tie goes to the even neighbour
Round2(num, den) ==
    LET q == num \div den
        r == num % den
    IN IF 2 * r < den THEN q
       ELSE IF 2 * r > den THEN q + 1
       ELSE IF q % 2 = 0 THEN q ELSE q + 1

\* lines 587-602, in hundredths: 0.6 * min(1, len(df) / 100)
\* + 0.4 * min(1, 2 * amplitude), rounded to two places
CalculateForecastConfidence(rows, seasonal_patterns) ==
    LET amplitude == IF seasonal_patterns = EmptyDict THEN Ratio(0, 1)
                     ELSE seasonal_patterns.seasonal_amplitude
        pattern == IF 2 * amplitude.num >= 840 * amplitude.den
                   THEN Ratio(1, 1) ELSE Ratio(2 * amplitude.num, 840 * amplitude.den)
    IN Round2(data_quality_weight * Min2(full_history, rows) * pattern.den
                + pattern_weight * full_history * pattern.num,
              full_history * pattern.den)

\* lines 151-159; `today` is what datetime.now() returns
ForecastResult(call, today) ==
    [forecast_period_days |-> call.forecast_days,
     forecast_start_date |-> Strftime(today + 1),
     forecast_end_date |-> Strftime(today + call.forecast_days),
     predicted_blooms |-> DetectForecastBlooms(call.forecast_data),
     forecast_confidence |-> CalculateForecastConfidence(call.rows, call.seasonal_patterns),
     seasonal_patterns |-> call.seasonal_patterns,
     forecast_data |-> call.forecast_data]

InsufficientHistory == [error |-> "Insufficient historical data for forecasting"]

\* lines 45-92: detect_bloom_events as one function of its argument and of
\* the order in which find_peaks visits peaks of equal height
DetectBloomEvents(time_series, order_of) ==
    IF time_series = <<>> THEN <<>>
    ELSE LET frame == SmoothTimeSeries(CleanTimeSeries(LoadFrame(time_series)))
         IN MergeBloomEvents(DetectThresholdBlooms(frame).blooms
                             \o DetectPeakBlooms(frame, order_of).blooms
                             \o DetectChangePointBlooms(frame).blooms)

DetectOrders(time_series) ==
    LET frame == SmoothTimeSeries(CleanTimeSeries(LoadFrame(time_series)))
    IN VisitOrders(HighMaxima(NdviSmooth(frame), BloomScale(frame)), NdviSmooth(frame))

-----------------------------------------------------------------------------
(* Calls of one shared BloomDetectionService instance                       *)

MaxHistoryLen == 50
MaxForecastDays == 3
MaxClockDays == 1
MaxSharedDays == 2

Calls == {1, 2}

HistoryKinds == {"seasonal", "missing", "trailing_gap"}

\* n observations 16 days apart from 2023-01-01 on: green from February to
\* April and bare otherwise; all without NDVI; or seasonal with the last
\* five without NDVI
History(kind, n) ==
    RawSeries([k \in 1..n |->
                 IF kind = "missing" \/ (kind = "trailing_gap" /\ k > n - 5) THEN "N"
                 ELSE IF MonthOf(16 * (k - 1)) \in 2..4 THEN "H" ELSE "L"], "default")

\* the histories of the calls made one at a time
Histories ==
    {<<>>, History("seasonal", min_history - 1)}
      \cup {History(kind, n) : kind \in HistoryKinds, n \in min_history..MaxHistoryLen}

\* the histories of the calls made at the same time
SharedHistories == {History("seasonal", min_history - 1), History("seasonal", min_history)}

SharedDetectInputs == {<<>>, RawSeries(<<"L", "H", "H", "H", "L">>, "default")}

Seeds == {0}

\* the day the calls are made
Today == Strptime(<<2025, 6, 30>>)

IdleCall ==
    [pc |-> "idle", time_series |-> <<>>, forecast_days |-> 0, entry_state |-> 0,
     rows |-> 0, last_date |-> None, seasonal_patterns |-> EmptyDict,
     ndvi_forecast |-> None, forecast_data |-> <<>>, returned_on |-> None,
     result |-> <<>>]

\* the calls are made one at a time
InitForecast ==
    /\ pc = "one_at_a_time"
    /\ raw = <<>> /\ df = <<>> /\ result = <<>> /\ pheno = <<>>
    /\ NoBlooms
    /\ now = Today
    /\ rng = 0
    /\ calls = [c \in Calls |-> IdleCall]

\* the calls are made at the same time, from several threads
InitShared ==
    /\ pc = "shared"
    /\ raw = <<>> /\ df = <<>> /\ result = <<>> /\ pheno = <<>>
    /\ NoBlooms
    /\ now = Today
    /\ rng = 0
    /\ calls = [c \in Calls |-> IdleCall]

\* calls are numbered in the order in which they begin; one made on its
\* own begins when the call before it has returned
MayBegin(c) ==
    /\ calls[c].pc = "idle"
    /\ \A b \in Calls : b < c =>
          IF pc = "shared" THEN calls[b].pc # "idle"
          ELSE calls[b].pc \in {"forecast_done", "detect_done"}

Running(c) == calls[c].pc \in {"ndvi_noise", "evi_noise", "return"}

\* lines 130-140 and 511-516 of a forecast_bloom_events call with enough
\* history: the frame, the seasonal patterns and the last date.  With a
\* frame without rows date_range raises on NaT and _generate_forecast
\* returns an empty frame (line 545).
ForecastPrepare(time_series) ==
    LET frame == SmoothTimeSeries(CleanTimeSeries(LoadFrame(time_series)))
    IN [rows |-> Len(frame),
        last_date |-> IF frame = <<>> THEN None ELSE LastDate(frame),
        seasonal_patterns |-> ExtractSeasonalPatterns(frame)]

\* ForecastPrepare of every history long enough, computed once
Prepared ==
    [time_series \in {h \in Histories \cup SharedHistories : Len(h) >= min_history} |->
        ForecastPrepare(time_series)]

\* a length test that also turns away a history of exactly min_history
TooShortInclusive(time_series) == Len(time_series) <= min_history

\* line 127: not time_series or len(time_series) < 50
TooShort(time_series) == time_series = <<>> \/ Len(time_series) < min_history

\* lines 124-143 and 511-516: the call up to the loop of _generate_forecast
ForecastBegin(time_series, forecast_days, state) ==
    IF TooShort(time_series)
    THEN [IdleCall EXCEPT !.pc = "forecast_done", !.time_series = time_series,
                          !.forecast_days = forecast_days, !.entry_state = state,
                          !.result = InsufficientHistory]
    ELSE [IdleCall EXCEPT
            !.pc = IF Prepared[time_series].rows = 0 \/ forecast_days = 0
                   THEN "return" ELSE "ndvi_noise",
            !.time_series = time_series,
            !.forecast_days = forecast_days,
            !.entry_state = state,
            !.rows = Prepared[time_series].rows,
            !.last_date = Prepared[time_series].last_date,
            !.seasonal_patterns = Prepared[time_series].seasonal_patterns]

ForecastCall(c) ==
    /\ MayBegin(c)
    /\ \E time_series \in (IF pc = "shared" THEN SharedHistories ELSE Histories),
          forecast_days \in (IF pc = "shared" THEN 1..MaxSharedDays ELSE 0..MaxForecastDays) :
          calls' = [calls EXCEPT ![c] = ForecastBegin(time_series, forecast_days, rng)]
    /\ UNCHANGED <<pc, raw, df, threshold_blooms, peak_blooms, change_point_blooms,
                   bloom_events, merged, merged_from, result, pheno, now, rng>>

\* line 532: one draw from the generator
ForecastNdviNoise(c) ==
    /\ calls[c].pc = "ndvi_noise"
    /\ calls' = [calls EXCEPT
          ![c].ndvi_forecast =
              NdviForecast(calls[c].seasonal_patterns,
                           calls[c].last_date + Len(calls[c].forecast_data) + 1, rng),
          ![c].pc = "evi_noise"]
    /\ rng' = NextState(rng)
    /\ UNCHANGED <<pc, raw, df, threshold_blooms, peak_blooms, change_point_blooms,
                   bloom_events, merged, merged_from, result, pheno, now>>

\* lines 533-539: the second draw and the point appended
ForecastEviNoise(c) ==
    /\ calls[c].pc = "evi_noise"
    /\ LET date == calls[c].last_date + Len(calls[c].forecast_data) + 1
           point == ForecastPoint(date, calls[c].ndvi_forecast,
                                  EviForecast(calls[c].seasonal_patterns, date, rng))
       IN calls' = [calls EXCEPT
             ![c].forecast_data = Append(calls[c].forecast_data, point),
             ![c].ndvi_forecast = None,
             ![c].pc = IF Len(calls[c].forecast_data) + 1 = calls[c].forecast_days
                       THEN "return" ELSE "ndvi_noise"]
    /\ rng' = NextState(rng)
    /\ UNCHANGED <<pc, raw, df, threshold_blooms, peak_blooms, change_point_blooms,
                   bloom_events, merged, merged_from, result, pheno, now>>

\* lines 541 and 146-159
ForecastReturn(c) ==
    /\ calls[c].pc = "return"
    /\ calls' = [calls EXCEPT ![c].result = ForecastResult(calls[c], now),
                              ![c].returned_on = now,
                              ![c].pc = "forecast_done"]
    /\ UNCHANGED <<pc, raw, df, threshold_blooms, peak_blooms, change_point_blooms,
                   bloom_events, merged, merged_from, result, pheno, now, rng>>

\* what detect_bloom_events may return for each shared input, computed once
DetectOutcomes ==
    [time_series \in SharedDetectInputs |->
        {DetectBloomEvents(time_series, order_of) : order_of \in DetectOrders(time_series)}]

\* a detect_bloom_events call: it reads its argument and the thresholds of
\* the instance only, so its steps commute with every step of another call
\* and it is taken in one step
DetectCall(c) ==
    /\ MayBegin(c)
    /\ \E time_series \in SharedDetectInputs :
         \E events \in DetectOutcomes[time_series] :
            calls' = [calls EXCEPT ![c] =
                        [IdleCall EXCEPT !.pc = "detect_done",
                                         !.time_series = time_series,
                                         !.entry_state = rng,
                                         !.result = events]]
    /\ UNCHANGED <<pc, raw, df, threshold_blooms, peak_blooms, change_point_blooms,
                   bloom_events, merged, merged_from, result, pheno, now, rng>>

\* the caller seeds the generator (np.random.seed) between calls
Seed ==
    /\ \A c \in Calls : ~Running(c)
    /\ \E seed \in Seeds : rng' = SeedState(seed)
    /\ UNCHANGED <<pc, raw, df, threshold_blooms, peak_blooms, change_point_blooms,
                   bloom_events, merged, merged_from, result, pheno, now, calls>>

\* midnight passes
Tick ==
    /\ now < Today + MaxClockDays
    /\ now' = now + 1
    /\ UNCHANGED <<pc, raw, df, threshold_blooms, peak_blooms, change_point_blooms,
                   bloom_events, merged, merged_from, result, pheno, rng, calls>>

NextForecast ==
    \/ \E c \in Calls : ForecastCall(c)
    \/ \E c \in Calls : ForecastNdviNoise(c)
    \/ \E c \in Calls : ForecastEviNoise(c)
    \/ \E c \in Calls : ForecastReturn(c)
    \/ Seed
    \/ Tick

SpecForecast == InitForecast /\ [][NextForecast]_vars

NextShared ==
    \/ \E c \in Calls : ForecastCall(c)
    \/ \E c \in Calls : ForecastNdviNoise(c)
    \/ \E c \in Calls : ForecastEviNoise(c)
    \/ \E c \in Calls : ForecastReturn(c)
    \/ \E c \in Calls : DetectCall(c)

SpecShared == InitShared /\ [][NextShared]_vars

-----------------------------------------------------------------------------
(* _determine_bloom_stage (427-447), called for one event on several days  *)

\* a stage test that still reports early_bloom on the day of the peak
DetermineBloomStageLatePeak(bloom, current_date) ==
    LET start_date == Strptime(bloom.start_date)
        peak_date == Strptime(bloom.peak_date)
        end_date == Strptime(bloom.end_date)
    IN IF current_date < start_date THEN "pre_bloom"
       ELSE IF start_date <= current_date /\ current_date <= peak_date THEN "early_bloom"
       ELSE IF current_date = peak_date THEN "peak_bloom"
       ELSE IF peak_date < current_date /\ current_date <= end_date THEN "late_bloom"
       ELSE "post_bloom"

\* lines 430-443, current_date being datetime.now().date()
DetermineBloomStage(bloom, current_date) ==
    LET start_date == Strptime(bloom.start_date)
        peak_date == Strptime(bloom.peak_date)
        end_date == Strptime(bloom.end_date)
    IN IF current_date < start_date THEN "pre_bloom"
       ELSE IF start_date <= current_date /\ current_date < peak_date THEN "early_bloom"
       ELSE IF current_date = peak_date THEN "peak_bloom"
       ELSE IF peak_date < current_date /\ current_date <= end_date THEN "late_bloom"
       ELSE "post_bloom"

MaxStageDays == 4
MaxStageCalls == 5

\* the day before the first day an event may start on
StageEve == Strptime(<<2023, 1, 29>>)

\* the events with start_date <= peak_date <= end_date within MaxStageDays
\* days around the end of a month
StageEvents ==
    {Candidate(StageEve + t[1], StageEve + t[2], StageEve + t[3], 500, 300, 70, "threshold") :
        t \in {u \in (1..MaxStageDays) \X (1..MaxStageDays) \X (1..MaxStageDays) :
                  u[1] <= u[2] /\ u[2] <= u[3]}}

\* one event, the clock on the eve of the first possible start, no stage
\* determined yet
InitStage ==
    /\ pc = "stage_call"
    /\ \E event \in StageEvents : bloom_events = <<event>>
    /\ now = StageEve
    /\ result = <<>>
    /\ raw = <<>> /\ df = <<>> /\ pheno = <<>>
    /\ threshold_blooms = <<>> /\ peak_blooms = <<>> /\ change_point_blooms = <<>>
    /\ merged = <<>> /\ merged_from = <<>>
    /\ rng = 0 /\ calls = <<>>

\* a call of _determine_bloom_stage(bloom, df); result keeps what the calls
\* so far returned and the day of each
StageCall ==
    /\ pc = "stage_call"
    /\ Len(result) < MaxStageCalls
    /\ result' = Append(result, [on |-> now,
                                 stage |-> DetermineBloomStage(bloom_events[1], now)])
    /\ UNCHANGED <<pc, raw, df, threshold_blooms, peak_blooms, change_point_blooms,
                   bloom_events, merged, merged_from, pheno,
                   now, rng, calls>>

\* midnight passes between two calls
StageTick ==
    /\ pc = "stage_call"
    /\ now <= StageEve + MaxStageDays
    /\ now' = now + 1
    /\ UNCHANGED <<pc, raw, df, threshold_blooms, peak_blooms, change_point_blooms,
                   bloom_events, merged, merged_from, result, pheno,
                   rng, calls>>

NextStage ==
    \/ StageCall
    \/ StageTick

SpecStage == InitStage /\ [][NextStage]_vars

-----------------------------------------------------------------------------
(* Claims about the merger                                                 *)

\* C1: the events _merge_bloom_events returns for well-formed candidates are
\* in ascending start_date order, and each event starts more than 7 days
\* after the end of the event before it, so no two spans overlap.
C1_MergedOrderedAndApart ==
    pc = "merge_done" =>
      \A k \in 1..(Len(merged) - 1) :
         /\ StrLess(merged[k].start_date, merged[k + 1].start_date)
         /\ Strptime(merged[k + 1].start_date) - Strptime(merged[k].end_date) > 7
         /\ StrLess(merged[k].end_date, merged[k + 1].start_date)

\* two events are returned, the first of them folded from two candidates
C1_Witness ==
    /\ pc = "merge_done"
    /\ Len(merged) >= 2
    /\ Cardinality(merged_from[1]) >= 2

\* C2: peak_ndvi, peak_evi, bloom_intensity and confidence_score of each
\* returned event are the maxima of those fields over exactly the candidates
\* folded into the event.
C2_MergedFieldsAreMaxima ==
    pc = "merge_done" =>
      LET sorted_blooms == SortByStart(bloom_events) IN
      \A k \in 1..Len(merged) :
         /\ merged_from[k] # {}
         /\ merged[k].peak_ndvi = MaxOf({sorted_blooms[j].peak_ndvi : j \in merged_from[k]})
         /\ merged[k].peak_evi = MaxOf({sorted_blooms[j].peak_evi : j \in merged_from[k]})
         /\ merged[k].bloom_intensity =
               MaxOf({sorted_blooms[j].bloom_intensity : j \in merged_from[k]})
         /\ merged[k].confidence_score =
               MaxOf({sorted_blooms[j].confidence_score : j \in merged_from[k]})

\* an event folded from three candidates whose largest peak_ndvi and largest
\* peak_evi come from two different candidates, neither of them the first
C2_Witness ==
    /\ pc = "merge_done"
    /\ \E k \in 1..Len(merged) :
         LET sorted_blooms == SortByStart(bloom_events) IN
         /\ Cardinality(merged_from[k]) = 3
         /\ merged[k].peak_ndvi > sorted_blooms[1].peak_ndvi
         /\ merged[k].peak_evi > sorted_blooms[1].peak_evi
         /\ \E i, j \in merged_from[k] :
              /\ i # j
              /\ sorted_blooms[i].peak_ndvi = merged[k].peak_ndvi
              /\ sorted_blooms[j].peak_evi = merged[k].peak_evi
              /\ sorted_blooms[i].peak_evi < merged[k].peak_evi

\* the events of the scan before the minimum-duration filter, each with the
\* positions (in start_date order) of the candidates folded into it
Scanned ==
    IF bloom_events = <<>> THEN <<>>
    ELSE LET sorted_blooms == SortByStart(bloom_events)
         IN MergeScan(sorted_blooms, 2, sorted_blooms[1], {1}, <<>>)

\* the latest end, in days, of the candidates at the given positions
LatestEnd(positions) ==
    MaxOf({Strptime(SortByStart(bloom_events)[j].end_date) : j \in positions})

\* the earliest start, in days, of the candidates at the given positions
EarliestStart(positions) ==
    MinOf({Strptime(SortByStart(bloom_events)[j].start_date) : j \in positions})

\* the event spans exactly the candidates at the given positions
SpansMembers(event, positions) ==
    /\ positions # {}
    /\ Strptime(event.start_date) = EarliestStart(positions)
    /\ Strptime(event.end_date) = LatestEnd(positions)
    /\ event.duration_days = Strptime(event.end_date) - Strptime(event.start_date)

\* C20: in the merge scan a candidate joins the accumulator exactly when its
\* start_date is at most 7 days after the end_date the accumulator has
\* reached (overlap included), and otherwise the accumulator is flushed and
\* the candidate starts the next one; every event produced starts at the
\* earliest start and ends at the latest end of its candidates, and its
\* duration_days is end_date - start_date in days.
C20_FoldWithinSevenDaysAndSpan ==
    pc = "merge_done" =>
      LET sorted_blooms == SortByStart(bloom_events) IN
      /\ \A j \in 2..Len(sorted_blooms) :
            \E g \in 1..Len(Scanned) :
               LET before == {i \in Scanned[g].members : i < j} IN
               /\ j - 1 \in Scanned[g].members
               /\ (j \in Scanned[g].members)
                     <=> (Strptime(sorted_blooms[j].start_date) - LatestEnd(before) <= 7)
               /\ (j \notin Scanned[g].members)
                     => \E h \in 1..Len(Scanned) :
                           /\ h = g + 1
                           /\ j \in Scanned[h].members
                           /\ \A i \in Scanned[h].members : i >= j
      /\ \A g \in 1..Len(Scanned) : SpansMembers(Scanned[g].event, Scanned[g].members)
      /\ \A k \in 1..Len(merged) :
            /\ SpansMembers(merged[k], merged_from[k])
            /\ \E g \in 1..Len(Scanned) :
                  Scanned[g].event = merged[k] /\ Scanned[g].members = merged_from[k]

\* three candidates: the second lies inside the first, the third starts
\* more than 7 days after the second ends but within the first, so all
\* three are folded into one returned event that ends with the first
C20_Witness ==
    /\ pc = "merge_done"
    /\ Len(merged) = 1
    /\ merged_from[1] = {1, 2, 3}
    /\ LET sorted_blooms == SortByStart(bloom_events) IN
       /\ StrLess(sorted_blooms[2].end_date, sorted_blooms[1].end_date)
       /\ Strptime(sorted_blooms[3].start_date) - Strptime(sorted_blooms[2].end_date) > 7
       /\ merged[1].end_date = sorted_blooms[1].end_date
       /\ merged[1].duration_days > sorted_blooms[3].duration_days

\* C21: the minimum-duration filter is applied after the whole scan: the
\* returned list is exactly the events of the scan whose duration_days is at
\* least 14, in the order of the scan, so a candidate shorter than 14 days
\* survives inside an event that merging made long enough, and no returned
\* event is shorter than 14 days.
C21_FilterAfterScan ==
    pc = "merge_done" =>
      LET long == SelectSeq(Scanned, LAMBDA p : p.event.duration_days >= 14) IN
      /\ Len(merged) = Len(long)
      /\ \A k \in 1..Len(merged) :
            /\ merged[k] = long[k].event
            /\ merged_from[k] = long[k].members
            /\ merged[k].duration_days >= 14

\* a returned event folded from a candidate of fewer than 14 days and
\* another one, while another event of the scan was dropped as too short
C21_Witness ==
    /\ pc = "merge_done"
    /\ Len(merged) < Len(Scanned)
    /\ \E k \in 1..Len(merged) :
         /\ Cardinality(merged_from[k]) >= 2
         /\ \E j \in merged_from[k] :
               SortByStart(bloom_events)[j].duration_days < 14

\* the fields of the events that describe their spans and strengths
Spans(events) ==
    [k \in 1..Len(events) |->
       [start_date |-> events[k].start_date,
        end_date |-> events[k].end_date,
        duration_days |-> events[k].duration_days,
        peak_ndvi |-> events[k].peak_ndvi,
        peak_evi |-> events[k].peak_evi,
        bloom_intensity |-> events[k].bloom_intensity,
        confidence_score |-> events[k].confidence_score]]

\* the input list in the order given by the permutation f
Permuted(events, f) == [k \in 1..Len(events) |-> events[f[k]]]

\* C28: the events _merge_bloom_events returns do not depend on the order
\* of the input list: every permutation of the same well-formed candidates
\* gives events with the same start_date, end_date, duration_days,
\* peak_ndvi, peak_evi, bloom_intensity and confidence_score (peak_date and
\* detection_method may differ between candidates tied on start_date).
C28_MergeIndependentOfInputOrder ==
    pc = "merge_done" =>
      \A f \in PermutationsOf(Len(bloom_events)) :
         Spans(MergeBloomEvents(Permuted(bloom_events, f))) = Spans(merged)

\* three candidates, two of them tied on start_date, not handed in in
\* start_date order; handing the tied ones in the other way round changes
\* the peak_date of the returned event
C28_Witness ==
    /\ pc = "merge_done"
    /\ Len(bloom_events) = 3
    /\ merged # <<>>
    /\ StrLess(bloom_events[2].start_date, bloom_events[1].start_date)
    /\ bloom_events[2].start_date = bloom_events[3].start_date
    /\ \E f \in PermutationsOf(3) :
         MergeBloomEvents(Permuted(bloom_events, f))[1].peak_date # merged[1].peak_date

\* C29: merging leaves the accumulator's start_date, peak_date and
\* detection_method as they were and does not modify the candidate records
\* handed in: each returned event carries the start_date, peak_date and
\* detection_method of the earliest-sorted candidate folded into it, so
\* start_date <= peak_date <= end_date is preserved (peak_date need not be
\* the date of the candidate the event's peak_ndvi comes from).
C29_MergeKeepsFirstPeakAndInputs ==
    pc = "merge_done" =>
      LET sorted_blooms == SortByStart(bloom_events) IN
      /\ \A k \in 1..Len(bloom_events) : bloom_events[k] \in CandPool
      /\ \A k \in 1..Len(merged) :
            LET first == sorted_blooms[MinOf(merged_from[k])] IN
            /\ merged[k].start_date = first.start_date
            /\ merged[k].peak_date = first.peak_date
            /\ merged[k].detection_method = first.detection_method
            /\ ~StrLess(merged[k].peak_date, merged[k].start_date)
            /\ ~StrLess(merged[k].end_date, merged[k].peak_date)

\* a returned event folded from several candidates whose peak_ndvi comes
\* from a candidate other than the earliest, with another peak_date and
\* another detection_method than the event carries
C29_Witness ==
    /\ pc = "merge_done"
    /\ \E k \in 1..Len(merged) :
         LET sorted_blooms == SortByStart(bloom_events) IN
         /\ Cardinality(merged_from[k]) >= 2
         /\ StrLess(sorted_blooms[MinOf(merged_from[k])].end_date, merged[k].end_date)
         /\ \A j \in merged_from[k] :
               sorted_blooms[j].peak_ndvi = merged[k].peak_ndvi
                  => /\ sorted_blooms[j].peak_date # merged[k].peak_date
                     /\ sorted_blooms[j].detection_method # merged[k].detection_method

-----------------------------------------------------------------------------
(* Claims about the bloom stage                                            *)

StageRank(stage) ==
    CASE stage = "pre_bloom" -> 1
      [] stage = "early_bloom" -> 2
      [] stage = "peak_bloom" -> 3
      [] stage = "late_bloom" -> 4
      [] stage = "post_bloom" -> 5
      [] OTHER -> 0

\* C27: for an event with start_date <= peak_date <= end_date the stage is
\* pre_bloom before the start, early_bloom from the start to the day before
\* the peak, peak_bloom on the day of the peak, late_bloom after the peak up
\* to the end and post_bloom after the end, exactly one of them on every
\* day; and as the current date advances the stage never moves backward in
\* the order pre, early, peak, late, post.
C27_StageByDateNeverBackward ==
    pc = "stage_call" =>
      LET start == Strptime(bloom_events[1].start_date)
          peak == Strptime(bloom_events[1].peak_date)
          end == Strptime(bloom_events[1].end_date)
      IN /\ \A k \in 1..Len(result) :
               LET on == result[k].on
                   stage == result[k].stage
               IN /\ stage = "pre_bloom" <=> on < start
                  /\ stage = "early_bloom" <=> (start <= on /\ on < peak)
                  /\ stage = "peak_bloom" <=> on = peak
                  /\ stage = "late_bloom" <=> (peak < on /\ on <= end)
                  /\ stage = "post_bloom" <=> on > end
                  /\ StageRank(stage) \in 1..5
         /\ \A j, k \in 1..Len(result) :
               (j < k /\ result[j].on <= result[k].on)
                  => StageRank(result[j].stage) <= StageRank(result[k].stage)

\* the stage of one event was determined on five days in a row and went
\* through all five stages
C27_Witness ==
    /\ pc = "stage_call"
    /\ Len(result) = 5
    /\ \A k \in 1..5 : StageRank(result[k].stage) = k
    /\ \A k \in 1..4 : result[k + 1].on = result[k].on + 1

-----------------------------------------------------------------------------
(* Claims about detect_bloom_events                                        *)

AfterClean == {"smooth", "threshold", "peak", "change_point", "merge", "finish"}
AfterThreshold == {"peak", "change_point", "merge", "finish"}
AfterDetectors == {"merge", "finish"}

Elements(list) == {list[k] : k \in 1..Len(list)}

Candidates == Elements(threshold_blooms) \cup Elements(peak_blooms)
                \cup Elements(change_point_blooms)

\* C3: every event detect_bloom_events returns lasts at least
\* min_bloom_duration = 14 and at most max_bloom_duration = 120 days.
C3_ReturnedDurationsBounded ==
    pc = "detect_done" =>
      \A k \in 1..Len(result) :
         /\ result[k].duration_days >= 14
         /\ result[k].duration_days <= 120

\* C4: every candidate of the three detectors has
\* start_date <= peak_date <= end_date and duration_days = end - start in
\* days, also when cleaning dropped rows of the frame.
C4_CandidateDatesOrdered ==
    \A c \in Candidates :
       /\ ~StrLess(c.peak_date, c.start_date)
       /\ ~StrLess(c.end_date, c.peak_date)
       /\ c.duration_days = Strptime(c.end_date) - Strptime(c.start_date)

\* the maximal runs of rows above both thresholds that span at least three
\* samples, as pairs of positions in ascending order
LongRuns(frame) ==
    LET mask == BloomMask(frame)
        n == Len(frame)
        IsRun(a, b) ==
            /\ a + 2 <= b
            /\ \A i \in a..b : mask[i + 1]
            /\ (a = 0 \/ ~mask[a])
            /\ (b = n - 1 \/ ~mask[b + 2])
        starts == Ascending({a \in 0..(n - 1) : \E b \in 0..(n - 1) : IsRun(a, b)})
    IN [k \in 1..Len(starts) |->
          <<starts[k], CHOOSE b \in 0..(n - 1) : IsRun(starts[k], b)>>]

\* C5: the threshold detector returns exactly one candidate per maximal run
\* of at least 3 consecutive samples above both thresholds (a run reaching
\* the last sample included), in order, with start and end at the run's
\* bounds; so it returns no candidate spanning fewer than 3 samples.
C5_OneCandidatePerLongRun ==
    pc \in AfterThreshold =>
      LET runs == LongRuns(df) IN
      /\ Len(threshold_blooms) = Len(runs)
      /\ \A k \in 1..Len(runs) :
            /\ threshold_blooms[k].start_date = Strftime(Iloc(df, runs[k][1]).date)
            /\ threshold_blooms[k].end_date = Strftime(Iloc(df, runs[k][2]).date)

\* C22: for every threshold candidate, peak_date is the date of a sample
\* with the maximum smoothed NDVI among the samples of its run, and
\* peak_ndvi and peak_evi are that sample's values, also when cleaning
\* dropped rows before or inside the run.
C22_ThresholdPeakIsRunMaximum ==
    pc \in AfterThreshold =>
      \A k \in 1..Len(threshold_blooms) :
         \E r \in Elements(LongRuns(df)) :
            LET top == MaxOf({Iloc(df, i).ndvi_smooth : i \in r[1]..r[2]}) IN
            /\ threshold_blooms[k].start_date = Strftime(Iloc(df, r[1]).date)
            /\ threshold_blooms[k].end_date = Strftime(Iloc(df, r[2]).date)
            /\ \E p \in r[1]..r[2] :
                  /\ Iloc(df, p).ndvi_smooth = top
                  /\ threshold_blooms[k].peak_date = Strftime(Iloc(df, p).date)
                  /\ threshold_blooms[k].peak_ndvi = Iloc(df, p).ndvi_smooth
                  /\ threshold_blooms[k].peak_evi = Iloc(df, p).evi_smooth

\* the positions of the samples whose smoothed-NDVI first difference is
\* above 1.5 standard deviations (onsets), in ascending order
OnsetPositions(frame) ==
    LET diffs == NdviDiff(frame)
    IN Ascending({j - 1 : j \in {i \in 2..Len(frame) :
                     diffs[i] > 0 /\ BeyondStd(diffs[i], diffs)}})

\* the positions of the samples whose difference is below -1.5 standard
\* deviations (offsets)
OffsetPositions(frame) ==
    LET diffs == NdviDiff(frame)
    IN {j - 1 : j \in {i \in 2..Len(frame) :
                     diffs[i] < 0 /\ BeyondStd(diffs[i], diffs)}}

\* the first position of the maximum smoothed NDVI among positions a..b
ArgMaxBetween(frame, a, b) ==
    CHOOSE p \in a..b :
       /\ \A i \in a..b : Iloc(frame, i).ndvi_smooth <= Iloc(frame, p).ndvi_smooth
       /\ \A i \in a..(p - 1) : Iloc(frame, i).ndvi_smooth < Iloc(frame, p).ndvi_smooth

\* the candidates the pairing of onsets with offsets gives, by position
PairedBlooms(frame) ==
    LET offsets == OffsetPositions(frame)
        End(s) == MinOf({e \in offsets : e > s})
        Duration(s) == Iloc(frame, End(s)).date - Iloc(frame, s).date
        Emitted(s) ==
            /\ \E e \in offsets : e > s
            /\ 14 <= Duration(s) /\ Duration(s) <= 120
            /\ Iloc(frame, ArgMaxBetween(frame, s, End(s))).ndvi_smooth
                  > ndvi_bloom_threshold * BloomScale(frame)
        onsets == SelectSeq(OnsetPositions(frame), Emitted)
    IN [k \in 1..Len(onsets) |->
          MakeBloom(frame, onsets[k], ArgMaxBetween(frame, onsets[k], End(onsets[k])),
                    End(onsets[k]), 60, "change_point")]

\* C23: the change-point detector pairs each onset with the smallest offset
\* position greater than it, takes the peak as the argmax of the smoothed
\* NDVI within that span and emits the pair only if its duration is within
\* [14, 120] days and the peak NDVI exceeds the NDVI threshold; start, end and
\* peak are those samples also when cleaning dropped rows from the series.
C23_ChangePointPairsOnsetWithNextOffset ==
    pc \in AfterDetectors => change_point_blooms = PairedBlooms(df)

AfterPeak == {"change_point", "merge", "finish"}

\* the refined window <<start, end>> of the peak at position p
RefinedWindow(frame, p) ==
    <<FindBloomStart(frame, p, Max2(0, p - 5)),
      FindBloomEnd(frame, p, Min2(Len(frame) - 1, p + 5))>>

\* the refined window of the peak at position p stays within five samples
\* of the peak and within the series, and no sample in it is below half the
\* peak's smoothed NDVI
WindowRefined(frame, p) ==
    LET w == RefinedWindow(frame, p) IN
    /\ Max2(0, p - 5) <= w[1] /\ w[1] <= p
    /\ p <= w[2] /\ w[2] <= Min2(Len(frame) - 1, p + 5)
    /\ \A i \in w[1]..w[2] :
          2 * Iloc(frame, i).ndvi_smooth >= Iloc(frame, p).ndvi_smooth

\* the days between the first and the last sample of the refined window
WindowDays(frame, p) ==
    LET w == RefinedWindow(frame, p)
    IN Iloc(frame, w[2]).date - Iloc(frame, w[1]).date

\* C24: for every peak at position p of a series of n samples the refined
\* start lies in [max(0, p-5), p] and the refined end in [p, min(n-1, p+5)],
\* every sample from the refined start to the refined end has smoothed NDVI
\* of at least half the peak's, and the peak's candidate is emitted only
\* if its duration is within [14, 120] days.
C24_PeakWindowRefinedAndBounded ==
    pc \in AfterPeak =>
      \E order_of \in VisitOrders(HighMaxima(NdviSmooth(df), BloomScale(df)),
                                  NdviSmooth(df)) :
         LET peaks == FindPeaks(NdviSmooth(df), BloomScale(df), order_of)
             emitted == SelectSeq(peaks, LAMBDA p : /\ 14 <= WindowDays(df, p)
                                                    /\ WindowDays(df, p) <= 120)
         IN /\ \A k \in 1..Len(peaks) : WindowRefined(df, peaks[k])
            /\ Len(peak_blooms) = Len(emitted)
            /\ \A k \in 1..Len(emitted) :
                  LET w == RefinedWindow(df, emitted[k]) IN
                  /\ peak_blooms[k].start_date = Strftime(Iloc(df, w[1]).date)
                  /\ peak_blooms[k].peak_date = Strftime(Iloc(df, emitted[k]).date)
                  /\ peak_blooms[k].end_date = Strftime(Iloc(df, w[2]).date)
                  /\ peak_blooms[k].duration_days = WindowDays(df, emitted[k])
                  /\ peak_blooms[k].duration_days \in 14..120

\* a peak whose candidate was emitted, its window cut short on both sides
\* by samples below half the peak, in a series long enough for the window
\* of five samples to fit on the left of the peak
C24_Witness ==
    /\ pc = "change_point"
    /\ Len(peak_blooms) = 1
    /\ \E p \in 5..(Len(df) - 2) :
         LET w == RefinedWindow(df, p) IN
         /\ peak_blooms[1].peak_date = Strftime(Iloc(df, p).date)
         /\ peak_blooms[1].start_date = Strftime(Iloc(df, w[1]).date)
         /\ peak_blooms[1].end_date = Strftime(Iloc(df, w[2]).date)
         /\ p - 5 < w[1] /\ w[1] < p
         /\ p < w[2] /\ w[2] < Len(df) - 1
         /\ 2 * Iloc(df, w[2] + 1).ndvi_smooth < Iloc(df, p).ndvi_smooth

AfterPhases == {"pheno_rates", "pheno_quality", "pheno_return", "pheno_done"}

\* C6: in _detect_phenology_phases the peak-of-season index is the first
\* index of the maximum smoothed NDVI, the start-of-season index is never
\* greater and the end-of-season index never smaller than it, so the dates
\* at the three indices are in order, constant series included.
C6_PeakBetweenSeasonBounds ==
    (pc \in AfterPhases /\ HasSmooth(df)) =>
      LET sos_idx == pheno.sos_idx
          pos_idx == pheno.pos_idx
          eos_idx == pheno.eos_idx
      IN /\ InFrame(df, pos_idx)
         /\ \A k \in 1..Len(df) : df[k].ndvi_smooth <= Iloc(df, pos_idx).ndvi_smooth
         /\ \A k \in 1..pos_idx : df[k].ndvi_smooth < Iloc(df, pos_idx).ndvi_smooth
         /\ sos_idx # None => sos_idx <= pos_idx
         /\ InFrame(df, eos_idx) /\ pos_idx <= eos_idx
         /\ sos_idx # None =>
               /\ Iloc(df, sos_idx).date <= Iloc(df, pos_idx).date
               /\ Iloc(df, pos_idx).date <= Iloc(df, eos_idx).date

\* the three indices are set, apart, and the season ends before the series
C6_Witness ==
    /\ pc = "pheno_rates"
    /\ HasSmooth(df)
    /\ 0 < pheno.sos_idx /\ pheno.sos_idx < pheno.pos_idx
    /\ pheno.pos_idx < pheno.eos_idx /\ pheno.eos_idx < Len(df) - 1

\* C7: the cleaned frame handed to the detectors has strictly ascending,
\* unique dates, whatever the order and the duplicates of the raw input.
C7_CleanedDatesStrictlyAscending ==
    pc \in AfterClean =>
      \A k \in 1..(Len(df) - 1) : df[k].date < df[k + 1].date

InRange(v) == v # NaN /\ -840 <= v /\ v <= 840

\* C8: after _clean_time_series every row has ndvi and evi present and
\* within [-1, 1]; there are at most as many rows as raw observations; each
\* row is one of the loaded rows (same label and date) whose values are
\* changed only where they were missing or out of range.
C8_CleanedRowsValid ==
    pc \in AfterClean =>
      LET loaded == LoadFrame(raw) IN
      /\ Len(df) <= Len(raw)
      /\ \A k \in 1..Len(df) :
            /\ InRange(df[k].ndvi) /\ InRange(df[k].evi)
            /\ df[k].label \in 0..(Len(loaded) - 1)
            /\ df[k].date = Iloc(loaded, df[k].label).date
            /\ InRange(Iloc(loaded, df[k].label).ndvi)
                 => df[k].ndvi = Iloc(loaded, df[k].label).ndvi
            /\ InRange(Iloc(loaded, df[k].label).evi)
                 => df[k].evi = Iloc(loaded, df[k].label).evi
      /\ \A k \in 1..(Len(df) - 1) : df[k].label < df[k + 1].label

\* a cleaned frame that lost a row, had a missing NDVI filled in and had an
\* out-of-range NDVI replaced
C8_Witness ==
    /\ pc = "smooth"
    /\ 0 < Len(df) /\ Len(df) < Len(raw)
    /\ \E k \in 1..Len(df) : Iloc(LoadFrame(raw), df[k].label).ndvi > 840
    /\ \E k \in 1..Len(raw) : raw[k].ndvi = 1260

\* the number of consecutive missing values of the column around position k
GapLength(col, k) ==
    LET a == PrevValid(col, k)
        b == NextValid(col, k)
    IN (IF b = 0 THEN Len(col) + 1 ELSE b) - a - 1

\* C26: cleaning fills a missing or out-of-range value only when it belongs
\* to a gap of at most 3 consecutive missing samples; every sample of a
\* longer gap, and every row where either index is still missing, is dropped
\* rather than filled.
C26_OnlyShortGapsFilled ==
    pc \in AfterClean =>
      LET loaded == LoadFrame(raw)
          ndvi == [k \in 1..Len(loaded) |-> MaskOutlier(loaded[k].ndvi)]
          evi == [k \in 1..Len(loaded) |-> MaskOutlier(loaded[k].evi)]
          kept == {df[k].label : k \in 1..Len(df)}
      IN /\ \A k \in 1..Len(loaded) :
               /\ (ndvi[k] = NaN /\ GapLength(ndvi, k) > 3) => loaded[k].label \notin kept
               /\ (evi[k] = NaN /\ GapLength(evi, k) > 3) => loaded[k].label \notin kept
         /\ \A k \in 1..Len(df) : df[k].ndvi # NaN /\ df[k].evi # NaN

BloomFields == {"start_date", "peak_date", "end_date", "duration_days", "peak_ndvi",
                "peak_evi", "bloom_intensity", "confidence_score", "detection_method"}

\* every row of the cleaned frame carries the same NDVI and the same EVI
ZeroVariance(frame) ==
    /\ Len(frame) >= 1
    /\ \A k \in 1..Len(frame) : frame[k].ndvi = frame[1].ndvi /\ frame[k].evi = frame[1].evi

QualityNumbers == {"data_completeness", "temporal_completeness", "valid_observations",
                   "total_observations", "max_gap_days", "mean_gap_days",
                   "large_gap_count", "overall_quality_score"}

\* C10: no numeric field of a phenology result is NaN or infinite: every
\* change rate and phase value present is finite, the quality metrics of a
\* smoothed frame are all there (no division by zero sent the function to
\* its except clause) and finite, a zero date range gives temporal
\* completeness 0, and a constant series gives variability 0 and the phase
\* indices first, first and last.
C10_NoNaNInPhenologyResult ==
    (pc = "pheno_done" /\ "error" \notin DOMAIN result) =>
      /\ \A block \in DOMAIN result.change_rates :
            \A field \in DOMAIN result.change_rates[block] :
               result.change_rates[block][field] = "finite"
      /\ \A block \in DOMAIN result.phenology_phases :
            \A field \in DOMAIN result.phenology_phases[block] :
               result.phenology_phases[block][field] # NaN
      /\ \A field \in DOMAIN result.quality_metrics \ {"quality_rating"} :
            /\ result.quality_metrics[field] # NaN
            /\ result.quality_metrics[field] >= 0
      /\ result.quality_metrics.overall_quality_score <= 400
      /\ HasSmooth(df) =>
            /\ DOMAIN result.quality_metrics = QualityNumbers \cup {"quality_rating"}
            /\ result.basic_statistics.ndvi.min # NaN
            /\ result.basic_statistics.ndvi.max # NaN
            /\ result.analysis_period.total_days = 0
                  => result.quality_metrics.temporal_completeness = 0
            /\ result.basic_statistics.ndvi.amplitude = 0 =>
                  /\ VariabilityFactor(df) = 0
                  /\ pheno.sos_idx = 0 /\ pheno.pos_idx = 0
                  /\ pheno.eos_idx = Len(df) - 1

\* a result for a constant series whose observations all carry one date:
\* zero standard deviation, zero amplitude, zero date differences
C10_Witness ==
    /\ pc = "pheno_done"
    /\ "error" \notin DOMAIN result
    /\ HasSmooth(df)
    /\ result.basic_statistics.ndvi.amplitude = 0
    /\ result.analysis_period.total_days = 0
    /\ result.quality_metrics.temporal_completeness = 0

-----------------------------------------------------------------------------
(* Claims about the preprocessor                                            *)

\* the records of a frame, as a time_series argument
Records(frame) ==
    [k \in 1..Len(frame) |->
       [date |-> Strftime(frame[k].date), ndvi |-> frame[k].ndvi, evi |-> frame[k].evi]]

\* the columns of a frame without its labels
Columns(frame) ==
    [k \in 1..Len(frame) |->
       [date |-> frame[k].date, ndvi |-> frame[k].ndvi, evi |-> frame[k].evi,
        ndvi_smooth |-> frame[k].ndvi_smooth, evi_smooth |-> frame[k].evi_smooth]]

\* C17: the preprocessor (clean, then smooth) applied to its own output
\* returns that output: no row is dropped, no value is interpolated or
\* replaced, and the smoothed columns are unchanged; the same holds when the
\* output is handed back as a list of records.
C17_PreprocessorIdempotent ==
    pc = "preprocess_done" =>
       /\ result = df
       /\ Columns(SmoothTimeSeries(CleanTimeSeries(LoadFrame(Records(df))))) = Columns(df)

\* the first pass dropped a row, filled a missing value and filtered the
\* frame, and the second pass has run
C17_Witness ==
    /\ pc = "preprocess_done"
    /\ Len(df) < Len(raw)
    /\ \E k \in 1..Len(df) :
          /\ raw[df[k].label + 1].ndvi = NaN
          /\ df[k].ndvi # NaN
    /\ \E k \in 1..Len(df) : df[k].ndvi_smooth # BloomScale(df) * df[k].ndvi
    /\ result = df

\* the largest odd integer not exceeding min(11, floor(n / 3))
LargestOddWithinThird(n) ==
    LET m == Min2(11, n \div 3) IN IF m % 2 = 1 THEN m ELSE m - 1

\* C25: for every series length n the smoothing window is the largest odd
\* integer not exceeding min(11, floor(n/3)); when that value is below 5 the
\* smoothed columns equal the raw columns, otherwise they are the raw columns
\* filtered over that window; so a window that is applied is odd, at most 11
\* and at most floor(n/3).
C25_WindowIsLargestOddWithinThird ==
    pc \in {"preprocess_again", "preprocess_done"} =>
      LET n == Len(df)
          w == LargestOddWithinThird(n)
          ndvi == [k \in 1..n |-> df[k].ndvi]
          evi == [k \in 1..n |-> df[k].evi]
      IN /\ w < 5 =>
               \A k \in 1..n :
                  /\ df[k].ndvi_smooth = BloomScale(df) * df[k].ndvi
                  /\ df[k].evi_smooth = BloomScale(df) * df[k].evi
         /\ w >= 5 =>
               \A k \in 1..n :
                  /\ df[k].ndvi_smooth * SavgolScale(w)
                        = SavgolFilter(ndvi, w)[k] * BloomScale(df)
                  /\ df[k].evi_smooth * SavgolScale(w)
                        = SavgolFilter(evi, w)[k] * BloomScale(df)
         /\ SmoothWindow(n) >= 5 =>
               /\ SmoothWindow(n) = w
               /\ SmoothWindow(n) % 2 = 1
               /\ SmoothWindow(n) <= 11
               /\ SmoothWindow(n) <= n \div 3

-----------------------------------------------------------------------------
(* Claims about degenerate series                                           *)

\* every row of the frame has NDVI 0.1 and EVI 0.05
ConstantLow(frame) ==
    /\ frame # <<>>
    /\ \A k \in 1..Len(frame) : frame[k].ndvi = 84 /\ frame[k].evi = 42

\* the first differences of the smoothed NDVI are all equal, so that their
\* standard deviation is 0 (there are at least two of them)
ZeroDiffStd(frame) ==
    /\ Len(frame) >= 3
    /\ \A k \in 3..Len(frame) :
          frame[k].ndvi_smooth - frame[k - 1].ndvi_smooth
             = frame[2].ndvi_smooth - frame[1].ndvi_smooth

\* C18: a series with NDVI 0.1 and EVI 0.05 at every sample yields no
\* candidate from any of the three detectors, and the change-point detector
\* yields no candidate whenever the standard deviation of the smoothed-NDVI
\* first differences is 0 (a constant series or a ramp of constant slope).
C18_NoCandidateOnConstantOrRamp ==
    pc \in {"merge", "finish", "detect_done"} =>
       /\ ConstantLow(df) =>
             /\ threshold_blooms = <<>>
             /\ peak_blooms = <<>>
             /\ change_point_blooms = <<>>
       /\ ZeroDiffStd(df) => change_point_blooms = <<>>

\* the change-point detector has run on a rising ramp that ends above the
\* NDVI threshold: every step counts as an increase, none as a decrease
C18_Witness ==
    /\ pc = "merge"
    /\ ZeroDiffStd(df)
    /\ df[2].ndvi_smooth > df[1].ndvi_smooth
    /\ df[Len(df)].ndvi_smooth > ndvi_bloom_threshold * BloomScale(df)
    /\ Len(IncreasePoints(df)) = Len(df) - 1
    /\ change_point_blooms = <<>>

-----------------------------------------------------------------------------
(* Claims about the phenology result                                        *)

\* the rows of a frame that carry both an NDVI and an EVI value
ValidRows(frame) == SelectSeq(frame, LAMBDA r : r.ndvi # NaN /\ r.evi # NaN)

\* C14: calculate_phenology_metrics returns an insufficient-data error, and
\* no phases, rates or quality block, whenever the raw series has fewer than
\* 10 observations or fewer than 10 rows are left after cleaning; phases are
\* never computed from fewer than 10 cleaned points.
C14_InsufficientDataBelowTen ==
    pc = "pheno_done" =>
       /\ (Len(raw) < 10 \/ Len(ValidRows(df)) < 10) =>
             /\ DOMAIN result = {"error"}
             /\ result.error \in {"Insufficient data for phenology analysis",
                                  "Insufficient valid data after cleaning"}
       /\ pheno.sos_idx # None => Len(ValidRows(df)) >= 10

\* the number of steps between consecutive dates of more than 32 days
LargeGaps(frame) ==
    Cardinality({k \in 1..(Len(frame) - 1) : frame[k + 1].date - frame[k].date > 32})

\* C15: the quality score of a result is the mean of four factors, each in
\* [0, 1] (valid / 20, the temporal completeness, 1 - large_gap_count /
\* valid and std / 0.2, each clipped), so it lies in [0, 1]; the rating is
\* excellent from 0.8, good from 0.6, fair from 0.4 and poor below; and
\* large_gap_count counts the gaps of strictly more than 32 days.  Factors
\* are in hundredths and the score is held as their sum, 400 times the mean.
C15_QualityScoreIsMeanOfFactors ==
    (pc = "pheno_done" /\ "error" \notin DOMAIN result) =>
       LET quality == result.quality_metrics
           valid == Len(df)
           by_count == Min2(100, (100 * valid) \div 20)
           by_gaps == Max2(0, (100 * (valid - LargeGaps(df))) \div valid)
       IN /\ {"temporal_completeness", "large_gap_count"} \subseteq DOMAIN quality
          /\ HasSmooth(df)
          /\ quality.large_gap_count = LargeGaps(df)
          /\ quality.temporal_completeness \in 0..100
          /\ VariabilityFactor(df) \in 0..100
          /\ quality.overall_quality_score
                = by_count + quality.temporal_completeness + by_gaps + VariabilityFactor(df)
          /\ quality.overall_quality_score \in 0..400
          /\ quality.quality_rating = "excellent" <=> quality.overall_quality_score >= 320
          /\ quality.quality_rating = "good" <=> quality.overall_quality_score \in 240..319
          /\ quality.quality_rating = "fair" <=> quality.overall_quality_score \in 160..239
          /\ quality.quality_rating = "poor" <=> quality.overall_quality_score < 160

\* C19: for every input that leaves at least 10 valid cleaned points the
\* result carries a phenology_phases block whose peak_of_season has its
\* date, day_of_year and ndvi_value; the block is never empty on valid input.
C19_PeakOfSeasonDefined ==
    (pc = "pheno_done" /\ HasSmooth(df) /\ Len(ValidRows(df)) >= 10) =>
       /\ "phenology_phases" \in DOMAIN result
       /\ result.phenology_phases # EmptyDict
       /\ "peak_of_season" \in DOMAIN result.phenology_phases
       /\ {"date", "day_of_year", "ndvi_value"}
             \subseteq DOMAIN result.phenology_phases.peak_of_season

-----------------------------------------------------------------------------
(* Claims about forecasting                                                 *)

\* the forecast_bloom_events calls that have returned
Forecasts == {c \in Calls : calls[c].pc = "forecast_done"}

\* C11: two forecast_bloom_events calls given the same history and the same
\* forecast_days, each entered with the generator in the same (seeded)
\* state, return the same result: nothing but the input, the configuration
\* and the seed decides it, the wall clock in particular does not.
C11_SameInputSameSeedSameResult ==
    \A a, b \in Forecasts :
       (/\ calls[a].time_series = calls[b].time_series
        /\ calls[a].forecast_days = calls[b].forecast_days
        /\ calls[a].entry_state = calls[b].entry_state)
          => calls[a].result = calls[b].result

\* what a forecast_bloom_events call returns when nothing else draws from the
\* generator between its entry and its return
ForecastAlone(call) ==
    IF Len(call.time_series) < min_history THEN InsufficientHistory
    ELSE ForecastResult(
           [call EXCEPT !.forecast_data =
               IF call.rows = 0 THEN <<>>
               ELSE GenerateForecast(call.seasonal_patterns, call.last_date,
                                     call.forecast_days, 1, call.entry_state)],
           call.returned_on)

\* C12: whatever the interleaving of the detect_bloom_events and
\* forecast_bloom_events calls on one shared instance, each call returns what
\* it would return when run alone, from the state in which it found the
\* generator: no call changes anything another call reads.
C12_EachCallAsIfAlone ==
    \A c \in Calls :
       /\ calls[c].pc = "forecast_done" => calls[c].result = ForecastAlone(calls[c])
       /\ calls[c].pc = "detect_done" => calls[c].result \in DetectOutcomes[calls[c].time_series]

\* C13: a forecast_bloom_events call with fewer than 50 raw observations
\* (none included) returns the insufficient-history error and nothing else,
\* without ever reaching the forecast loop; a call with 50 or more never
\* returns that outcome.
C13_InsufficientHistoryBelowFifty ==
    \A c \in Calls :
       /\ Running(c) => Len(calls[c].time_series) >= 50
       /\ (calls[c].pc = "forecast_done" /\ Len(calls[c].time_series) < 50) =>
             /\ calls[c].result = [error |-> "Insufficient historical data for forecasting"]
             /\ calls[c].forecast_data = <<>>
       /\ (calls[c].pc = "forecast_done" /\ Len(calls[c].time_series) >= 50) =>
             /\ calls[c].result # [error |-> "Insufficient historical data for forecasting"]
             /\ "error" \notin DOMAIN calls[c].result

\* one call with 49 observations was turned away and one with 50 returned a
\* forecast with its points, blooms and confidence
C13_Witness ==
    /\ calls[1].pc = "forecast_done" /\ Len(calls[1].time_series) = 49
    /\ DOMAIN calls[1].result = {"error"}
    /\ calls[2].pc = "forecast_done" /\ Len(calls[2].time_series) = 50
    /\ calls[2].result.forecast_data # <<>>
    /\ calls[2].result.predicted_blooms # <<>>
    /\ calls[2].result.forecast_confidence > 0

\* a value of the closed interval [0, 1]
InUnitInterval(x) == ~RatioLess(x, Ratio(0, 1)) /\ ~RatioLess(Ratio(840, 1), x)

\* the dates of the rows that cleaning keeps
CleanedDates(time_series) ==
    LET frame == CleanTimeSeries(LoadFrame(time_series))
    IN {frame[k].date : k \in 1..Len(frame)}

\* C16: a forecast returned without an error holds exactly forecast_days
\* points, one per consecutive calendar day, the first dated the day after
\* the last date of the cleaned history, and every ndvi_forecast and
\* evi_forecast lies in [0, 1].
C16_ForecastPointsCountDatesRange ==
    \A c \in Forecasts :
       "error" \notin DOMAIN calls[c].result =>
          LET points == calls[c].result.forecast_data
          IN /\ Len(points) = calls[c].forecast_days
             /\ \A k \in 1..(Len(points) - 1) : points[k + 1].date = points[k].date + 1
             /\ points # <<>> =>
                   /\ CleanedDates(calls[c].time_series) # {}
                   /\ points[1].date = MaxOf(CleanedDates(calls[c].time_series)) + 1
             /\ \A k \in 1..Len(points) :
                   InUnitInterval(points[k].ndvi_forecast) /\ InUnitInterval(points[k].evi_forecast)


\* C30: in a forecast returned without an error, forecast_start_date is the
\* date of the first forecast point and forecast_end_date the date of the
\* last one, and every predicted bloom lies within
\* [forecast_start_date, forecast_end_date].
C30_ForecastDatesSpanThePoints ==
    \A c \in Forecasts :
       "error" \notin DOMAIN calls[c].result =>
          LET points == calls[c].result.forecast_data
              blooms == calls[c].result.predicted_blooms
              first_day == calls[c].result.forecast_start_date
              last_day == calls[c].result.forecast_end_date
          IN /\ points # <<>> =>
                   /\ first_day = Strftime(points[1].date)
                   /\ last_day = Strftime(points[Len(points)].date)
             /\ \A k \in 1..Len(blooms) :
                   /\ ~StrLess(blooms[k].start_date, first_day)
                   /\ ~StrLess(last_day, blooms[k].end_date)

=============================================================================
